---- MODULE Spec2Model ----
(***************************************************************************)
(* Event-sourced CQRS runtime of the restaurant/order demo:                *)
(*   - command side: aggregates load a stream, fold it, decide and append  *)
(*     with optimistic concurrency (adapter/repository/*.rs);              *)
(*   - event log and lock table (adapter/database/queries.rs);             *)
(*   - stream dispatchers for the subscribers "view" and "saga"            *)
(*     (adapter/event_stream/*.rs, main.rs), the saga issuing CreateOrder  *)
(*     through the order aggregate (adapter/publisher).                    *)
(***************************************************************************)
EXTENDS Integers, Sequences, FiniteSets, TLC

\* ------------------------------------------------------------------ bounds

\* Largest number of events the log may hold in a behaviour of each
\* specification below (the log itself is unbounded).
MaxEventsAll == 3
MaxEventsOcc == 4
MaxEventsChain == 4
MaxEventsDispatch == 3
MaxEventsLive == 3
MaxEventsStale == 5
MaxEventsBatch == 3
MaxEventsWeb == 3
MaxEventsLoop == 3
MaxEventsCodec == 2
MaxEventsShared == 4
MaxEventsLocks == 2
MaxEventsProject == 2

\* Longest batch of events handed to EventRepository::save.
MaxBatch == 2

\* ------------------------------------------------------------ value domains

RestaurantIds == {"r1"}
OrderIds == {"o1"}
Views == {"view", "saga"}
\* Concurrent command calls (one task per in-flight HTTP command).
Handlers == {"h1", "h2"}
\* Dispatcher workers polling one subscriber (program instances on one store).
Workers == {"wA", "wB"}

\* Option<T>: None is the empty sequence, Some(x) the one-element sequence.
None == <<>>
Some(x) == <<x>>
is_some(o) == o # None
unwrap(o) == o[1]

\* The payload value objects carry no logic; one value of each is enough here.
TheName == "Chez"
TheMenu == "M"
TheItems == "L1"

VARIABLES
    events,     \* the events table, in offset order: events[i].offset = i
    locks,      \* the locks table: (view, decider_id) -> row, or None
    restaurants,\* the restaurants projection table: id -> Option<data>
    orders,     \* the orders projection table: id -> Option<data>
    handlers,   \* in-flight aggregate.handle(command) calls of the web layer
    workers,    \* dispatcher workers, per subscriber
    task,       \* main's background task of each program instance: its place in the loop
    cancelled   \* background_task_cancellation: the token has been cancelled

vars == <<events, locks, restaurants, orders, handlers, workers, task, cancelled>>

\* ------------------------------------------------------------------ domain

RestaurantCommands ==
    {[type |-> "CreateRestaurant", identifier |-> r, name |-> TheName, menu |-> TheMenu]
        : r \in RestaurantIds}
    \cup {[type |-> "ChangeMenu", identifier |-> r, menu |-> TheMenu] : r \in RestaurantIds}
    \cup {[type |-> "PlaceOrder", identifier |-> r, order_identifier |-> o,
           line_items |-> TheItems] : r \in RestaurantIds, o \in OrderIds}

OrderCommands ==
    {[type |-> "Create", identifier |-> o, restaurant_identifier |-> r,
      line_items |-> TheItems] : o \in OrderIds, r \in RestaurantIds}
    \cup {[type |-> "MarkAsPrepared", identifier |-> o] : o \in OrderIds}

\* Mutant of restaurant_decide: CreateRestaurant is accepted whatever the state.
restaurant_decide_overwriting(command, state) ==
    CASE command.type = "CreateRestaurant" ->
            IF is_some(state) /\ FALSE
            THEN <<[decider |-> "Restaurant", type |-> "NotCreated",
                    identifier |-> command.identifier, name |-> command.name,
                    menu |-> command.menu, reason |-> "Restaurant already exists"]>>
            ELSE <<[decider |-> "Restaurant", type |-> "Created",
                    identifier |-> command.identifier, name |-> command.name,
                    menu |-> command.menu]>>
      [] command.type = "ChangeMenu" ->
            IF is_some(state)
            THEN <<[decider |-> "Restaurant", type |-> "MenuChanged",
                    identifier |-> command.identifier, menu |-> command.menu]>>
            ELSE <<[decider |-> "Restaurant", type |-> "MenuNotChanged",
                    identifier |-> command.identifier, menu |-> command.menu,
                    reason |-> "Restaurant does not exist"]>>
      [] command.type = "PlaceOrder" ->
            IF is_some(state)
            THEN <<[decider |-> "Restaurant", type |-> "OrderPlaced",
                    identifier |-> command.identifier,
                    order_identifier |-> command.order_identifier,
                    line_items |-> command.line_items]>>
            ELSE <<[decider |-> "Restaurant", type |-> "OrderNotPlaced",
                    identifier |-> command.identifier,
                    order_identifier |-> command.order_identifier,
                    line_items |-> command.line_items,
                    reason |-> "Restaurant does not exist"]>>

\* restaurant_decider().decide
restaurant_decide(command, state) ==
    CASE command.type = "CreateRestaurant" ->
            IF is_some(state)
            THEN <<[decider |-> "Restaurant", type |-> "NotCreated",
                    identifier |-> command.identifier, name |-> command.name,
                    menu |-> command.menu, reason |-> "Restaurant already exists"]>>
            ELSE <<[decider |-> "Restaurant", type |-> "Created",
                    identifier |-> command.identifier, name |-> command.name,
                    menu |-> command.menu]>>
      [] command.type = "ChangeMenu" ->
            IF is_some(state)
            THEN <<[decider |-> "Restaurant", type |-> "MenuChanged",
                    identifier |-> command.identifier, menu |-> command.menu]>>
            ELSE <<[decider |-> "Restaurant", type |-> "MenuNotChanged",
                    identifier |-> command.identifier, menu |-> command.menu,
                    reason |-> "Restaurant does not exist"]>>
      [] command.type = "PlaceOrder" ->
            IF is_some(state)
            THEN <<[decider |-> "Restaurant", type |-> "OrderPlaced",
                    identifier |-> command.identifier,
                    order_identifier |-> command.order_identifier,
                    line_items |-> command.line_items]>>
            ELSE <<[decider |-> "Restaurant", type |-> "OrderNotPlaced",
                    identifier |-> command.identifier,
                    order_identifier |-> command.order_identifier,
                    line_items |-> command.line_items,
                    reason |-> "Restaurant does not exist"]>>

\* Mutant of restaurant_evolve: MenuChanged renames the restaurant after its
\* new menu.
restaurant_evolve_renaming(state, event) ==
    CASE event.type = "Created" ->
            Some([identifier |-> event.identifier, name |-> event.name, menu |-> event.menu])
      [] event.type = "MenuChanged" ->
            IF is_some(state)
            THEN Some([identifier |-> event.identifier, name |-> event.menu,
                       menu |-> event.menu])
            ELSE None
      [] event.type = "OrderPlaced" ->
            IF is_some(state)
            THEN Some([identifier |-> event.identifier, name |-> unwrap(state).name,
                       menu |-> unwrap(state).menu])
            ELSE None
      [] OTHER -> state

\* Mutant of restaurant_evolve: OrderPlaced exchanges the name and the menu it
\* should carry over.
restaurant_evolve_exchanging(state, event) ==
    CASE event.type = "Created" ->
            Some([identifier |-> event.identifier, name |-> event.name, menu |-> event.menu])
      [] event.type = "MenuChanged" ->
            IF is_some(state)
            THEN Some([identifier |-> event.identifier, name |-> unwrap(state).name,
                       menu |-> event.menu])
            ELSE None
      [] event.type = "OrderPlaced" ->
            IF is_some(state)
            THEN Some([identifier |-> event.identifier, name |-> unwrap(state).menu,
                       menu |-> unwrap(state).name])
            ELSE None
      [] OTHER -> state

\* restaurant_decider().evolve (restaurant_view().evolve has the same body)
restaurant_evolve(state, event) ==
    CASE event.type = "Created" ->
            Some([identifier |-> event.identifier, name |-> event.name, menu |-> event.menu])
      [] event.type = "MenuChanged" ->
            IF is_some(state)
            THEN Some([identifier |-> event.identifier, name |-> unwrap(state).name,
                       menu |-> event.menu])
            ELSE None
      [] event.type = "OrderPlaced" ->
            IF is_some(state)
            THEN Some([identifier |-> event.identifier, name |-> unwrap(state).name,
                       menu |-> unwrap(state).menu])
            ELSE None
      [] OTHER -> state

\* Mutant of order_decide: Create is accepted whatever the state.
order_decide_recreating(command, state) ==
    CASE command.type = "Create" ->
            IF is_some(state) /\ FALSE
            THEN <<[decider |-> "Order", type |-> "NotCreated",
                    identifier |-> command.identifier,
                    restaurant_identifier |-> command.restaurant_identifier,
                    line_items |-> command.line_items, reason |-> "Order already exists"]>>
            ELSE <<[decider |-> "Order", type |-> "Created",
                    identifier |-> command.identifier,
                    restaurant_identifier |-> command.restaurant_identifier,
                    status |-> "Created", line_items |-> command.line_items]>>
      [] command.type = "MarkAsPrepared" ->
            IF is_some(state) /\ unwrap(state).status = "Created"
            THEN <<[decider |-> "Order", type |-> "Prepared",
                    identifier |-> command.identifier, status |-> "Prepared"]>>
            ELSE <<[decider |-> "Order", type |-> "NotPrepared",
                    identifier |-> command.identifier,
                    reason |-> "Order in the wrong status previously"]>>

\* order_decider().decide
order_decide(command, state) ==
    CASE command.type = "Create" ->
            IF is_some(state)
            THEN <<[decider |-> "Order", type |-> "NotCreated",
                    identifier |-> command.identifier,
                    restaurant_identifier |-> command.restaurant_identifier,
                    line_items |-> command.line_items, reason |-> "Order already exists"]>>
            ELSE <<[decider |-> "Order", type |-> "Created",
                    identifier |-> command.identifier,
                    restaurant_identifier |-> command.restaurant_identifier,
                    status |-> "Created", line_items |-> command.line_items]>>
      [] command.type = "MarkAsPrepared" ->
            IF is_some(state) /\ unwrap(state).status = "Created"
            THEN <<[decider |-> "Order", type |-> "Prepared",
                    identifier |-> command.identifier, status |-> "Prepared"]>>
            ELSE <<[decider |-> "Order", type |-> "NotPrepared",
                    identifier |-> command.identifier,
                    reason |-> "Order in the wrong status previously"]>>

\* Mutant of order_evolve: Prepared does not carry the line items over.
order_evolve_forgetting(state, event) ==
    CASE event.type = "Created" ->
            Some([identifier |-> event.identifier,
                  restaurant_identifier |-> event.restaurant_identifier,
                  status |-> event.status, line_items |-> event.line_items])
      [] event.type = "Prepared" ->
            IF is_some(state)
            THEN Some([identifier |-> event.identifier,
                       restaurant_identifier |-> unwrap(state).restaurant_identifier,
                       status |-> event.status, line_items |-> TheItems])
            ELSE None
      [] OTHER -> state

\* Mutant of order_evolve: an error event marks an existing order Rejected.
order_evolve_rejecting(state, event) ==
    CASE event.type = "Created" ->
            Some([identifier |-> event.identifier,
                  restaurant_identifier |-> event.restaurant_identifier,
                  status |-> event.status, line_items |-> event.line_items])
      [] event.type = "Prepared" ->
            IF is_some(state)
            THEN Some([identifier |-> event.identifier,
                       restaurant_identifier |-> unwrap(state).restaurant_identifier,
                       status |-> event.status, line_items |-> unwrap(state).line_items])
            ELSE None
      [] OTHER ->
            IF is_some(state) THEN Some([unwrap(state) EXCEPT !.status = "Rejected"])
            ELSE state

\* order_decider().evolve (order_view().evolve has the same body)
order_evolve(state, event) ==
    CASE event.type = "Created" ->
            Some([identifier |-> event.identifier,
                  restaurant_identifier |-> event.restaurant_identifier,
                  status |-> event.status, line_items |-> event.line_items])
      [] event.type = "Prepared" ->
            IF is_some(state)
            THEN Some([identifier |-> event.identifier,
                       restaurant_identifier |-> unwrap(state).restaurant_identifier,
                       status |-> event.status, line_items |-> unwrap(state).line_items])
            ELSE None
      [] OTHER -> state

\* Mutant of order_saga_react: an order that was not placed is created too.
order_saga_react_eager(event) ==
    IF event.type \in {"OrderPlaced", "OrderNotPlaced"}
    THEN <<[type |-> "Create", identifier |-> event.order_identifier,
            restaurant_identifier |-> event.identifier, line_items |-> event.line_items]>>
    ELSE <<>>

\* order_saga().react
order_saga_react(event) ==
    IF event.type = "OrderPlaced"
    THEN <<[type |-> "Create", identifier |-> event.order_identifier,
            restaurant_identifier |-> event.identifier, line_items |-> event.line_items]>>
    ELSE <<>>

\* The decider a command belongs to (RestaurantCommand or OrderCommand).
command_decider(command) ==
    IF command.type \in {"CreateRestaurant", "ChangeMenu", "PlaceOrder"}
    THEN "Restaurant" ELSE "Order"

decide(command, state) ==
    IF command_decider(command) = "Restaurant"
    THEN restaurant_decide(command, state) ELSE order_decide(command, state)

evolve(state, event) ==
    IF event.decider = "Restaurant"
    THEN restaurant_evolve(state, event) ELSE order_evolve(state, event)

RECURSIVE fold(_, _)
\* EventSourcedAggregate: the state is the left fold of evolve from initial_state.
fold(state, evs) ==
    IF evs = <<>> THEN state ELSE fold(evolve(state, Head(evs)), Tail(evs))


\* Result<T, ErrorMessage>
Ok(x) == [ok |-> TRUE, value |-> x]
Err(m) == [ok |-> FALSE, message |-> m]

\* What a caller keeps of a Result: success, or the error's message.
outcome(result) == IF result.ok THEN "Ok" ELSE result.message

\* --------------------------------------------------------- the event store

\* Uuid::new_v4(): a value no row of the log carries. Ids are one-element
\* tuples so that they are never confused with offsets.
new_v4 == <<Len(events) + 1>>

\* The event name the repositories store (to_new_event_entity's match arms).
stored_event_name(event) == event.decider \o event.type

\* DeciderName::decider_name, EventName::event_name and Identifier::identifier
\* of an event (domain/api.rs); the repositories do not call them.
decider_name(event) == IF event.decider = "Restaurant" THEN "Restaurant" ELSE "Order"
event_name(event) ==
    IF event.decider = "Restaurant"
    THEN CASE event.type = "Created" -> "RestaurantCreated"
           [] event.type = "NotCreated" -> "RestaurantNotCreated"
           [] event.type = "MenuChanged" -> "RestaurantMenuChanged"
           [] event.type = "MenuNotChanged" -> "RestaurantMenuNotChanged"
           [] event.type = "OrderPlaced" -> "OrderPlaced"
           [] event.type = "OrderNotPlaced" -> "OrderNotPlaced"
    ELSE CASE event.type = "Created" -> "OrderCreated"
           [] event.type = "NotCreated" -> "OrderNotCreated"
           [] event.type = "Prepared" -> "OrderPrepared"
           [] event.type = "NotPrepared" -> "OrderNotPrepared"
identifier(event) == event.identifier

\* The variants of RestaurantEvent and of OrderEvent with the fields of their
\* payload structs.
RestaurantEventFields ==
    [Created |-> {"identifier", "name", "menu"},
     NotCreated |-> {"identifier", "name", "menu", "reason"},
     MenuChanged |-> {"identifier", "menu"},
     MenuNotChanged |-> {"identifier", "menu", "reason"},
     OrderPlaced |-> {"identifier", "order_identifier", "line_items"},
     OrderNotPlaced |-> {"identifier", "order_identifier", "line_items", "reason"}]
OrderEventFields ==
    [Created |-> {"identifier", "restaurant_identifier", "status", "line_items"},
     NotCreated |-> {"identifier", "restaurant_identifier", "line_items", "reason"},
     Prepared |-> {"identifier", "status"},
     NotPrepared |-> {"identifier", "reason"}]

\* Mutant of to_value: the tag is not written.
to_value_untagged(event) == [f \in DOMAIN event \ {"decider", "type"} |-> event[f]]

\* serde_json::to_value of an event enum with #[serde(tag = "type")]: a JSON
\* object of the variant's fields and the tag "type". The enum the event
\* belongs to (its decider) is a Rust type and is not written.
to_value(event) == [f \in DOMAIN event \ {"decider"} |-> event[f]]

\* Mutant of to_new_event_entity: every event is filed under the Restaurant
\* decider.
to_new_event_entity_one_family(event, version) ==
    [event |-> stored_event_name(event),
     event_id |-> new_v4,
     decider |-> "Restaurant",
     decider_id |-> event.identifier,
     data |-> to_value(event),
     command_id |-> None,
     previous_id |-> version,
     final |-> FALSE]

\* ToNewEventEntity::to_new_event_entity(event, version)
to_new_event_entity(event, version) ==
    [event |-> stored_event_name(event),
     event_id |-> new_v4,
     decider |-> event.decider,
     decider_id |-> event.identifier,
     data |-> to_value(event),
     command_id |-> None,
     previous_id |-> version,
     final |-> FALSE]

\* SELECT * FROM events WHERE decider_id = $1 ORDER BY events.offset
list_events(decider_id) ==
    SelectSeq(events, LAMBDA row : row.decider_id = decider_id)

\* Mutant of get_latest_event: the WHERE clause is lost, the latest event of
\* the whole log is returned.
get_latest_event_of_log(decider_id) ==
    IF events = <<>> THEN Err("RowNotFound") ELSE Ok(events[Len(events)])

\* SELECT ... WHERE decider_id = $1 ORDER BY offset DESC LIMIT 1, fetch_one:
\* no row is an error (RowNotFound), not an absent value.
get_latest_event(decider_id) ==
    LET rows == list_events(decider_id)
    IN  IF rows = <<>> THEN Err("RowNotFound") ELSE Ok(rows[Len(rows)])

\* The events table's refusal of an INSERT (the schema is not part of the
\* Rust sources): no two events of a stream (decider, decider_id) share a
\* previous_id, and nothing follows a final event.
insert_refused(new_event) ==
    \E i \in 1..Len(events) :
        /\ events[i].decider = new_event.decider
        /\ events[i].decider_id = new_event.decider_id
        /\ \/ events[i].previous_id = new_event.previous_id
           \/ events[i].final

\* append_event: INSERT INTO events ... RETURNING *; the log assigns the offset.
append_event(new_event) ==
    IF insert_refused(new_event)
    THEN Err("VersionConflict")
    ELSE Ok([decider |-> new_event.decider,
             decider_id |-> new_event.decider_id,
             event |-> new_event.event,
             data |-> new_event.data,
             event_id |-> new_event.event_id,
             command_id |-> new_event.command_id,
             previous_id |-> new_event.previous_id,
             final |-> new_event.final,
             offset |-> Len(events) + 1])

\* Mutant of inserted: the row takes the place of the log's last row.
inserted_over(row) ==
    IF events = <<>> THEN <<row>> ELSE [events EXCEPT ![Len(events)] = row]

\* The events table once append_event's INSERT has returned the row.
inserted(row) == Append(events, row)

\* serde_json::from_value into an event enum with #[serde(tag = "type")]: the
\* tag selects the variant, every field of the variant's struct must be
\* present, fields the struct does not have are dropped.
from_value(data, decider, variants) ==
    IF /\ "type" \in DOMAIN data
       /\ data.type \in DOMAIN variants
       /\ variants[data.type] \subseteq DOMAIN data
    THEN Ok([f \in variants[data.type] \cup {"decider", "type"} |->
                IF f = "decider" THEN decider ELSE data[f]])
    ELSE Err("decode")

\* ToRestaurantEvent / ToOrderEvent: serde_json::from_value(data) into the
\* event enum of the repository's decider.
to_restaurant_event(row) == from_value(row.data, "Restaurant", RestaurantEventFields)
to_order_event(row) == from_value(row.data, "Order", OrderEventFields)

\* ToEvent: serde_json::from_value(data) into Event = Sum<RestaurantEvent,
\* OrderEvent>, which reads the payloads either typed repository writes.
to_event(row) ==
    IF to_restaurant_event(row).ok THEN to_restaurant_event(row) ELSE to_order_event(row)

\* --------------------------------------------------------- repositories

\* The decoder of a repository: AggregateEventRepository decodes to Event,
\* RestaurantEventRepository to RestaurantEvent, OrderEventRepository to
\* OrderEvent.
decode(row, family) ==
    CASE family = "Event" -> to_event(row)
      [] family = "Restaurant" -> to_restaurant_event(row)
      [] family = "Order" -> to_order_event(row)

\* fetch_events: list_events(command.identifier()), each row decoded, the
\* whole fetch failing on the first row that does not decode (collect()).
\* The value is the list of (event, event_id) pairs.
fetch_events(command, family) ==
    LET rows == list_events(command.identifier)
    IN  IF \E i \in 1..Len(rows) : ~decode(rows[i], family).ok
        THEN Err("decode")
        ELSE Ok([i \in 1..Len(rows) |->
                    <<decode(rows[i], family).value, rows[i].event_id>>])

\* AggregateEventRepository::fetch_events
aggregate_fetch_events(command) == fetch_events(command, "Event")

\* OrderEventRepository::fetch_events
order_fetch_events(command) == fetch_events(command, "Order")

\* The version of a fetched list: the event_id of its last pair.
latest_version(fetched) ==
    IF fetched = <<>> THEN None ELSE Some(fetched[Len(fetched)][2])

\* The state folded from a fetched list.
current_state(fetched) ==
    fold(None, [i \in 1..Len(fetched) |-> fetched[i][1]])

\* Mutant of save: a refused event is stamped again with the version of the
\* stream's latest event and inserted (an automatic retry).
save_retrying(new_events, version) ==
    LET rows == list_events(new_events[1].identifier)
    IN  IF insert_refused(to_new_event_entity(new_events[1], version))
        THEN append_event(to_new_event_entity(new_events[1], Some(rows[Len(rows)].event_id)))
        ELSE append_event(to_new_event_entity(new_events[1], version))

\* AggregateEventRepository::save / RestaurantEventRepository::save with the
\* one-event batches the deciders produce: the event is stamped with the
\* version the caller loaded (previous_id: Option<Uuid>) and inserted.
save(new_events, version) ==
    append_event(to_new_event_entity(new_events[1], version))

\* OrderEventRepository::version_provider
version_provider(event) ==
    LET latest == get_latest_event(event.identifier)
    IN  IF latest.ok THEN Ok(Some(latest.value.event_id)) ELSE latest


\* ------------------------------------------------- command side (web layer)

IdleHandler == [pc |-> "idle"]

\* Calls that have loaded their stream and may still append.
InFlight ==
    Cardinality({h \in Handlers : handlers[h].pc = "fetched"})
    + Cardinality({vw \in Views \X Workers : workers[vw[1]][vw[2]].pc \in {"fetched", "probed"}})

\* Room in a log bounded by cap for one more call to run to its end.
Room(cap) == Len(events) + InFlight < cap

\* order_command_handler / restaurant_command_handler, first half of
\* EventSourcedAggregate::handle over AggregateEventRepository: fetch_events,
\* the version of the last fetched event and the folded state. handlers[h] is
\* the latest call of client h; its outcome stays until h calls again.
HandleFetch(h, command, cap) ==
    /\ handlers[h].pc # "fetched"
    /\ Room(cap)
    /\ LET fetched == aggregate_fetch_events(command)
       IN  handlers' = [handlers EXCEPT ![h] =
               IF fetched.ok
               THEN [pc |-> "fetched", command |-> command,
                     version |-> latest_version(fetched.value),
                     state |-> current_state(fetched.value)]
               ELSE [pc |-> "done", command |-> command, version |-> None,
                     result |-> outcome(fetched)]]
    /\ UNCHANGED <<events, locks, restaurants, orders, workers, task, cancelled>>

\* Second half of handle: decide on the loaded state, save with the loaded
\* version, return the outcome to the caller.
HandleSave(h) ==
    /\ handlers[h].pc = "fetched"
    /\ LET new_events == decide(handlers[h].command, handlers[h].state)
           saved == save(new_events, handlers[h].version)
       IN  /\ events' = IF saved.ok THEN inserted(saved.value) ELSE events
           /\ handlers' = [handlers EXCEPT ![h] =
                  [pc |-> "done", command |-> handlers[h].command,
                   version |-> handlers[h].version, result |-> outcome(saved)]]
    /\ UNCHANGED <<locks, restaurants, orders, workers, task, cancelled>>

\* ------------------------------------------------------------ lock table

StreamIds == RestaurantIds \cup OrderIds

\* The last acknowledged offset of a (view, stream) pair; a pair without a
\* lock row has acknowledged nothing (offsets start at 1).
last_offset_of(view, decider_id) ==
    IF is_some(locks[view][decider_id])
    THEN unwrap(locks[view][decider_id]).last_offset ELSE 0

\* now < locked_until
lease_active(view, decider_id) ==
    is_some(locks[view][decider_id]) /\ unwrap(locks[view][decider_id]).leased

\* Mutant of pending: the comparison with last_offset is lost.
pending_of_whole_stream(view, decider_id) ==
    {i \in 1..Len(events) : events[i].decider_id = decider_id}

\* The offsets of a stream's events that a subscriber has not acknowledged.
pending(view, decider_id) ==
    {i \in 1..Len(events) :
        events[i].decider_id = decider_id /\ i > last_offset_of(view, decider_id)}

\* The first pending offset of a stream (FIFO within the stream).
first_pending(view, decider_id) ==
    CHOOSE i \in pending(view, decider_id) :
        \A j \in pending(view, decider_id) : i <= j

\* The streams next_event may serve from: an event beyond last_offset and
\* no active lease on the pair.
eligible(view) ==
    {d \in StreamIds : pending(view, d) # {} /\ ~lease_active(view, d)}

\* The store's next_event primitive behind stream_events(view): for the
\* stream picked, the lock row is created or refreshed with a lease on the
\* first pending event; that event is returned.
lease(view, decider_id) ==
    [locks EXCEPT ![view][decider_id] =
        Some([view |-> view, decider_id |-> decider_id,
              offset |-> first_pending(view, decider_id),
              last_offset |-> last_offset_of(view, decider_id),
              leased |-> TRUE])]

\* Mutant of ack_event: an upsert, which creates the lock row it does not find.
ack_event_upserting(offset, view, decider_id) ==
    IF is_some(locks[view][decider_id])
    THEN Ok([locks EXCEPT ![view][decider_id] =
                Some([unwrap(locks[view][decider_id]) EXCEPT
                        !.leased = FALSE, !.last_offset = offset])])
    ELSE Ok([locks EXCEPT ![view][decider_id] =
                Some([view |-> view, decider_id |-> decider_id, offset |-> offset,
                      last_offset |-> offset, leased |-> FALSE])])

\* Mutant of ack_event: the lease is released but the offset is not recorded.
ack_event_keeping_offset(offset, view, decider_id) ==
    IF is_some(locks[view][decider_id])
    THEN Ok([locks EXCEPT ![view][decider_id] =
                Some([unwrap(locks[view][decider_id]) EXCEPT !.leased = FALSE])])
    ELSE Err("RowNotFound")

\* ack_event: UPDATE locks SET locked_until = NOW(), last_offset = $1
\*            WHERE view = $2 AND decider_id = $3 RETURNING *; fetch_one.
ack_event(offset, view, decider_id) ==
    IF is_some(locks[view][decider_id])
    THEN Ok([locks EXCEPT ![view][decider_id] =
                Some([unwrap(locks[view][decider_id]) EXCEPT
                        !.leased = FALSE, !.last_offset = offset])])
    ELSE Err("RowNotFound")

\* nack_event: UPDATE locks SET locked_until = NOW()
\*             WHERE view = $1 AND decider_id = $2 RETURNING *; fetch_one.
nack_event(view, decider_id) ==
    IF is_some(locks[view][decider_id])
    THEN Ok([locks EXCEPT ![view][decider_id] =
                Some([unwrap(locks[view][decider_id]) EXCEPT !.leased = FALSE])])
    ELSE Err("RowNotFound")

\* ------------------------------------------------------- view dispatcher

IdleWorker == [pc |-> "idle"]

\* The background task main spawns, at the top of its loop.
StartedTask == [pc |-> "view", late |-> 0]

\* stream_events(view) returned Some(event_entity): the worker holds the event.
Poll(view, w, decider_id) ==
    /\ workers[view][w].pc = "idle"
    /\ decider_id \in eligible(view)
    /\ locks' = lease(view, decider_id)
    /\ workers' = [workers EXCEPT ![view][w] =
           [pc |-> "served", offset |-> first_pending(view, decider_id)]]
    /\ UNCHANGED <<events, restaurants, orders, handlers, task, cancelled>>

\* MaterializedView::handle: fetch_state(event), view.evolve, save (upsert of
\* a Some state; a None state writes nothing). store_ok = FALSE is a failed
\* store call inside the handler.
materialized_view_handle(table, event, store_ok) ==
    LET new_state == evolve(table[event.identifier], event)
    IN  IF ~store_ok THEN Err("store")
        ELSE IF is_some(new_state)
             THEN Ok([table EXCEPT ![event.identifier] = new_state])
             ELSE Ok(table)

\* stream_events_to_view, the match on event_entity.decider up to the handler's
\* result. `event_entity.to_event()?` leaves the pass with the decode error
\* before the handler and before any ack or nack.
ViewHandle(w, store_ok) ==
    /\ workers["view"][w].pc = "served"
    /\ LET row == events[workers["view"][w].offset]
           decoded == to_event(row)
           handled == IF ~decoded.ok THEN decoded
                      ELSE IF row.decider = "Restaurant"
                      THEN materialized_view_handle(restaurants, decoded.value, store_ok)
                      ELSE materialized_view_handle(orders, decoded.value, store_ok)
       IN  /\ restaurants' = IF handled.ok /\ row.decider = "Restaurant"
                             THEN handled.value ELSE restaurants
           /\ orders' = IF handled.ok /\ row.decider = "Order"
                        THEN handled.value ELSE orders
           /\ workers' = [workers EXCEPT !["view"][w] =
                  IF decoded.ok
                  THEN [pc |-> "handled", offset |-> row.offset, ok |-> handled.ok]
                  ELSE [pc |-> "failed", offset |-> row.offset, error |-> "decode"]]
    /\ UNCHANGED <<events, locks, handlers, task, cancelled>>

\* Mutant of finish: the event is acknowledged whatever the handler returned.
finish_always_ack(view, w) ==
    ack_event(workers[view][w].offset, view, events[workers[view][w].offset].decider_id)

\* The dispatcher's last call of a pass: Ok(_) => ack_event, Err(_) => nack_event.
finish(view, w) ==
    LET row == events[workers[view][w].offset]
    IN  IF workers[view][w].ok
        THEN ack_event(row.offset, view, row.decider_id)
        ELSE nack_event(view, row.decider_id)

\* stream_events_to_view / stream_events_to_saga: ack or nack, end of the pass.
Finish(view, w) ==
    /\ workers[view][w].pc = "handled"
    /\ finish(view, w).ok
    /\ locks' = finish(view, w).value
    /\ workers' = [workers EXCEPT ![view][w] = IdleWorker]
    /\ UNCHANGED <<events, restaurants, orders, handlers, task, cancelled>>

\* A worker dies while it holds an event: neither ack nor nack is sent. The
\* record keeps the offset the dead worker held.
Crash(view, w) ==
    /\ workers[view][w].pc \in {"served", "handled"}
    /\ workers' = [workers EXCEPT ![view][w] =
           [pc |-> "crashed", offset |-> workers[view][w].offset]]
    /\ UNCHANGED <<events, locks, restaurants, orders, handlers, task, cancelled>>

\* The process of a dead worker is started again: main() enters its loop anew.
Restart(view, w) ==
    /\ workers[view][w].pc = "crashed"
    /\ workers' = [workers EXCEPT ![view][w] = IdleWorker]
    /\ UNCHANGED <<events, locks, restaurants, orders, handlers, task, cancelled>>

\* Time passes locked_until: the lease of a pair expires.
LeaseExpire(view, decider_id) ==
    /\ lease_active(view, decider_id)
    /\ locks' = [locks EXCEPT ![view][decider_id] =
                    Some([unwrap(locks[view][decider_id]) EXCEPT !.leased = FALSE])]
    /\ UNCHANGED <<events, restaurants, orders, handlers, workers, task, cancelled>>


\* ------------------------------------------------------- saga dispatcher

\* stream_events_to_saga after stream_events returned the event: an event of
\* another decider is acked unhandled; a Restaurant event is decoded with
\* to_restaurant_event().unwrap(), which panics on a decode error, and goes to
\* SagaManager::handle, which reacts and publishes the commands;
\* OrderActionPublisher::publish calls order_aggregate.handle(command), whose
\* first store call is OrderEventRepository::fetch_events.
SagaReact(w, cap) ==
    /\ workers["saga"][w].pc = "served"
    /\ LET row == events[workers["saga"][w].offset]
           decoded == to_restaurant_event(row)
           commands == order_saga_react(decoded.value)
           fetched == order_fetch_events(commands[1])
       IN  IF row.decider # "Restaurant"
           THEN workers' = [workers EXCEPT !["saga"][w] =
                    [pc |-> "handled", offset |-> row.offset, ok |-> TRUE,
                     appended |-> None]]
           ELSE IF ~decoded.ok
           THEN workers' = [workers EXCEPT !["saga"][w] =
                    [pc |-> "panicked", offset |-> row.offset, error |-> "decode"]]
           ELSE IF commands = <<>>
           THEN workers' = [workers EXCEPT !["saga"][w] =
                    [pc |-> "handled", offset |-> row.offset, ok |-> TRUE,
                     appended |-> None]]
           ELSE /\ Room(cap)
                /\ workers' = [workers EXCEPT !["saga"][w] =
                       IF fetched.ok
                       THEN [pc |-> "fetched", offset |-> row.offset,
                             command |-> commands[1],
                             loaded |-> latest_version(fetched.value),
                             state |-> current_state(fetched.value)]
                       ELSE [pc |-> "handled", offset |-> row.offset, ok |-> FALSE,
                             appended |-> None]]
    /\ UNCHANGED <<events, locks, restaurants, orders, handlers, task, cancelled>>

\* order_aggregate.handle continued: decide on the loaded state, then
\* OrderEventRepository::save probes the version of the first new event's
\* stream (version_provider); a failed probe fails the call.
SagaProbe(w) ==
    /\ workers["saga"][w].pc = "fetched"
    /\ LET me == workers["saga"][w]
           new_events == decide(me.command, me.state)
           probed == version_provider(new_events[1])
       IN  workers' = [workers EXCEPT !["saga"][w] =
               IF probed.ok
               THEN [pc |-> "probed", offset |-> me.offset, command |-> me.command,
                     loaded |-> me.loaded, state |-> me.state,
                     new_events |-> new_events, version |-> probed.value]
               ELSE [pc |-> "handled", offset |-> me.offset, ok |-> FALSE,
                     command |-> me.command, loaded |-> me.loaded,
                     result |-> outcome(probed), appended |-> None]]
    /\ UNCHANGED <<events, locks, restaurants, orders, handlers, task, cancelled>>

\* OrderEventRepository::save continued: the event is stamped with the probed
\* version and inserted; publish returns, SagaManager::handle returns.
SagaAppend(w) ==
    /\ workers["saga"][w].pc = "probed"
    /\ LET me == workers["saga"][w]
           saved == append_event(to_new_event_entity(me.new_events[1], me.version))
       IN  /\ events' = IF saved.ok THEN inserted(saved.value) ELSE events
           /\ workers' = [workers EXCEPT !["saga"][w] =
                  [pc |-> "handled", offset |-> me.offset, ok |-> saved.ok,
                   command |-> me.command, loaded |-> me.loaded, result |-> outcome(saved),
                   appended |-> IF saved.ok THEN Some(saved.value.event_id) ELSE None]]
    /\ UNCHANGED <<locks, restaurants, orders, handlers, task, cancelled>>

\* ------------------------------------------------------------ the system

Init ==
    /\ events = <<>>
    /\ locks = [v \in Views |-> [d \in StreamIds |-> None]]
    /\ restaurants = [r \in RestaurantIds |-> None]
    /\ orders = [o \in OrderIds |-> None]
    /\ handlers = [h \in Handlers |-> IdleHandler]
    /\ workers = [v \in Views |-> [w \in Workers |-> IdleWorker]]
    /\ task = [w \in Workers |-> StartedTask]
    /\ cancelled = FALSE

Commands == RestaurantCommands \cup OrderCommands

\* The whole program: two web calls, two workers per subscriber.
Next ==
    \/ \E h \in Handlers, c \in Commands : HandleFetch(h, c, MaxEventsAll)
    \/ \E h \in Handlers : HandleSave(h)
    \/ \E v \in Views, w \in Workers, d \in StreamIds : Poll(v, w, d)
    \/ \E w \in Workers, store_ok \in BOOLEAN : ViewHandle(w, store_ok)
    \/ \E w \in Workers : SagaReact(w, MaxEventsAll)
    \/ \E w \in Workers : SagaProbe(w)
    \/ \E w \in Workers : SagaAppend(w)
    \/ \E v \in Views, w \in Workers : Finish(v, w)
    \/ \E v \in Views, w \in Workers : Crash(v, w)
    \/ \E v \in Views, w \in Workers : Restart(v, w)
    \/ \E v \in Views, d \in StreamIds : LeaseExpire(v, d)

Spec == Init /\ [][Next]_vars

\* The command side under contention: two web calls and one saga worker
\* (the saga's order aggregate writes through OrderEventRepository).
NextOcc ==
    \/ \E h \in Handlers, c \in Commands : HandleFetch(h, c, MaxEventsOcc)
    \/ \E h \in Handlers : HandleSave(h)
    \/ \E d \in StreamIds : Poll("saga", "wA", d)
    \/ SagaReact("wA", MaxEventsOcc)
    \/ SagaProbe("wA")
    \/ SagaAppend("wA")
    \/ Finish("saga", "wA")

SpecOcc == Init /\ [][NextOcc]_vars

\* The commands that feed the log of the dispatcher specification: one stream
\* of each decider.
DispatchCommands ==
    {c \in Commands : c.type \in {"CreateRestaurant", "MarkAsPrepared"}}

\* The dispatchers under contention: one web call feeding the log, two
\* workers of the view subscriber, crashes, restarts and leases running out.
NextDispatch ==
    \/ \E c \in DispatchCommands : HandleFetch("h1", c, MaxEventsDispatch)
    \/ HandleSave("h1")
    \/ \E w \in Workers, d \in StreamIds : Poll("view", w, d)
    \/ \E w \in Workers, store_ok \in BOOLEAN : ViewHandle(w, store_ok)
    \/ \E w \in Workers : Finish("view", w)
    \/ \E w \in Workers : Crash("view", w)
    \/ \E w \in Workers : Restart("view", w)
    \/ \E d \in StreamIds : LeaseExpire("view", d)

SpecDispatch == Init /\ [][NextDispatch]_vars


\* External commands interleaved with saga-issued commands: one web call and
\* one saga worker.
NextChain ==
    \/ \E c \in Commands : HandleFetch("h1", c, MaxEventsChain)
    \/ HandleSave("h1")
    \/ \E d \in StreamIds : Poll("saga", "wA", d)
    \/ SagaReact("wA", MaxEventsChain)
    \/ SagaProbe("wA")
    \/ SagaAppend("wA")
    \/ Finish("saga", "wA")

SpecChain == Init /\ [][NextChain]_vars

\* The web layer alone: two command calls in flight on one store.
NextWeb ==
    \/ \E h \in Handlers, c \in Commands : HandleFetch(h, c, MaxEventsWeb)
    \/ \E h \in Handlers : HandleSave(h)

SpecWeb == Init /\ [][NextWeb]_vars

\* The commands of an order that is created and prepared by web calls while
\* the saga handles the RestaurantOrderPlaced event that names it.
StaleCommands ==
    {c \in Commands : c.type \in {"CreateRestaurant", "PlaceOrder", "Create", "MarkAsPrepared"}}

\* One web call and one saga worker over a log long enough for the saga's
\* order aggregate to load an order that a web call then changes.
NextStale ==
    \/ \E c \in StaleCommands : HandleFetch("h1", c, MaxEventsStale)
    \/ HandleSave("h1")
    \/ \E d \in StreamIds : Poll("saga", "wA", d)
    \/ SagaReact("wA", MaxEventsStale)
    \/ SagaProbe("wA")
    \/ SagaAppend("wA")
    \/ Finish("saga", "wA")

SpecStale == Init /\ [][NextStale]_vars

\* Identifiers are Uuids the clients choose: a PlaceOrder command may name an
\* order by the Uuid its restaurant has, so that the Restaurant and the Order
\* share a decider_id.
SharedCommands ==
    {c \in Commands : c.type \in {"CreateRestaurant", "PlaceOrder", "MarkAsPrepared"}}
    \cup {[type |-> "PlaceOrder", identifier |-> r, order_identifier |-> r,
            line_items |-> TheItems] : r \in RestaurantIds}

\* One web call and one saga worker, with orders named by their own Uuid or
\* by their restaurant's.
NextShared ==
    \/ \E c \in SharedCommands : HandleFetch("h1", c, MaxEventsShared)
    \/ HandleSave("h1")
    \/ \E d \in StreamIds : Poll("saga", "wA", d)
    \/ SagaReact("wA", MaxEventsShared)
    \/ SagaProbe("wA")
    \/ SagaAppend("wA")
    \/ Finish("saga", "wA")

SpecShared == Init /\ [][NextShared]_vars



\* The commands of the liveness specification.
LiveCommands ==
    {c \in Commands : c.type \in {"CreateRestaurant", "PlaceOrder", "MarkAsPrepared"}}

\* Every external event derives at most one saga command, so the saga's
\* appends always find room under twice the bound of the external ones.
MaxSagaLive == 2 * MaxEventsLive

\* One program instance whose loop keeps running against a reachable store:
\* one web call, the view pass and the saga pass of main's background task.
NextLive ==
    \/ \E c \in LiveCommands : HandleFetch("h1", c, MaxEventsLive)
    \/ HandleSave("h1")
    \/ \E v \in Views, d \in StreamIds : Poll(v, "wA", d)
    \/ ViewHandle("wA", TRUE)
    \/ SagaReact("wA", MaxSagaLive)
    \/ SagaProbe("wA")
    \/ SagaAppend("wA")
    \/ \E v \in Views : Finish(v, "wA")

\* main's loop runs both passes over and over (one second apart), every await
\* of a pass returns, and stream_events leaves no eligible stream out forever.
FairLive ==
    /\ \A v \in Views, d \in StreamIds : SF_vars(Poll(v, "wA", d))
    /\ WF_vars(ViewHandle("wA", TRUE))
    /\ WF_vars(SagaReact("wA", MaxSagaLive))
    /\ WF_vars(SagaProbe("wA"))
    /\ WF_vars(SagaAppend("wA"))
    /\ \A v \in Views : WF_vars(Finish(v, "wA"))
    /\ WF_vars(HandleSave("h1"))

SpecLive == Init /\ [][NextLive]_vars /\ FairLive

\* ------------------------------------------------- main's background loop

\* The loop's task has ended: by a break, or by a panic inside a pass.
Stopped(w, by) == [pc |-> "stopped", by |-> by, late |-> task[w].late]
Panicked(w) == [pc |-> "panicked", late |-> task[w].late]
ended(w) == task[w].pc \in {"stopped", "panicked"}

\* tokio::select! { sleep(1 s) => continue, cancelled() => break } when the
\* task reaches it: both branches are polled at once; the sleep has just
\* been created and is not ready, a token cancelled by now is.
enter_select(w) ==
    IF cancelled THEN Stopped(w, "cancellation") ELSE [task[w] EXCEPT !.pc = "select"]

\* The place of the loop after a pass returned without error.
after_pass(view, w) ==
    IF view = "view" THEN [task[w] EXCEPT !.pc = "saga"] ELSE enter_select(w)

\* The place of the loop after a pass failed: stream_events_to_view returns
\* Err and main breaks out of the loop; stream_events_to_saga panics.
after_failure(view, w) ==
    IF view = "view" THEN Stopped(w, "view error") ELSE Panicked(w)

\* The loop calls stream_events_to_view / stream_events_to_saga, whose first
\* statement is stream_events(view): a store error ends the pass with the
\* failure, Ok(None) ends it without error, Ok(Some(event_entity)) leases the
\* event to this worker. store_ok = FALSE is a failed store call.
PassBegin(view, w, store_ok) ==
    /\ task[w].pc = view
    /\ IF ~store_ok
       THEN /\ task' = [task EXCEPT ![w] = after_failure(view, w)]
            /\ UNCHANGED <<locks, workers>>
       ELSE IF eligible(view) = {}
       THEN /\ task' = [task EXCEPT ![w] = after_pass(view, w)]
            /\ UNCHANGED <<locks, workers>>
       ELSE \E decider_id \in eligible(view) :
               /\ locks' = lease(view, decider_id)
               /\ workers' = [workers EXCEPT ![view][w] =
                      [pc |-> "served", offset |-> first_pending(view, decider_id)]]
               /\ task' = [task EXCEPT ![w] = [task[w] EXCEPT !.pc = view \o "_pass"]]
    /\ UNCHANGED <<events, restaurants, orders, handlers, cancelled>>

\* The ack_event / nack_event call of a pass fails in the store: the view pass
\* returns the error (`.map(drop)`), the saga pass panics (`.unwrap()`).
FinishFails(view, w) ==
    /\ workers[view][w].pc = "handled"
    /\ workers' = [workers EXCEPT ![view][w] =
           [pc |-> IF view = "view" THEN "failed" ELSE "panicked",
            offset |-> workers[view][w].offset, error |-> "store"]]
    /\ UNCHANGED <<events, locks, restaurants, orders, handlers, task, cancelled>>

\* The pass returns to the loop: Ok(_) => {} goes on, Err(error) => break,
\* a panic ends the task.
PassEnd(view, w) ==
    /\ task[w].pc = view \o "_pass"
    /\ workers[view][w].pc \in {"idle", "failed", "panicked"}
    /\ task' = [task EXCEPT ![w] =
           IF workers[view][w].pc = "idle" THEN after_pass(view, w)
           ELSE after_failure(view, w)]
    /\ UNCHANGED <<events, locks, restaurants, orders, handlers, workers, cancelled>>

\* The sleep of the select! runs out while the task waits in it.
TimerFires(w) ==
    /\ task[w].pc = "select"
    /\ task' = [task EXCEPT ![w] = [task[w] EXCEPT !.pc = "timer_ready"]]
    /\ UNCHANGED <<events, locks, restaurants, orders, handlers, workers, cancelled>>

\* select! takes the sleep branch: continue. When the token has been
\* cancelled meanwhile both branches are ready and select! takes either;
\* `late` counts the iterations begun with the token already cancelled.
SelectContinue(w) ==
    /\ task[w].pc = "timer_ready"
    /\ task' = [task EXCEPT ![w] =
           [pc |-> "view", late |-> task[w].late + (IF cancelled THEN 1 ELSE 0)]]
    /\ UNCHANGED <<events, locks, restaurants, orders, handlers, workers, cancelled>>

\* Mutant of SelectBreak: the cancellation ends the task wherever it is.
SelectBreak_preempting(w) ==
    /\ ~ended(w)
    /\ cancelled
    /\ task' = [task EXCEPT ![w] = Stopped(w, "cancellation")]
    /\ UNCHANGED <<events, locks, restaurants, orders, handlers, workers, cancelled>>

\* select! takes the cancelled() branch: break.
SelectBreak(w) ==
    /\ task[w].pc \in {"select", "timer_ready"}
    /\ cancelled
    /\ task' = [task EXCEPT ![w] = Stopped(w, "cancellation")]
    /\ UNCHANGED <<events, locks, restaurants, orders, handlers, workers, cancelled>>

\* main: the HTTP server has ended, background_task_cancellation.cancel().
Cancel ==
    /\ ~cancelled
    /\ cancelled' = TRUE
    /\ UNCHANGED <<events, locks, restaurants, orders, handlers, workers, task>>

\* Another writer of the store appends a row whose data the event types of
\* this program do not decode (a variant they do not know).
AppendForeign(decider, decider_id, cap) ==
    /\ Room(cap)
    /\ LET rows == list_events(decider_id)
       IN  events' = inserted(
               [decider |-> decider, decider_id |-> decider_id,
                event |-> decider \o "Archived",
                data |-> [type |-> "Archived", identifier |-> decider_id],
                event_id |-> new_v4, command_id |-> None,
                previous_id |-> IF rows = <<>> THEN None
                                ELSE Some(rows[Len(rows)].event_id),
                final |-> FALSE, offset |-> Len(events) + 1])
    /\ UNCHANGED <<locks, restaurants, orders, handlers, workers, task, cancelled>>

\* The commands of the loop specification.
LoopCommands ==
    {c \in Commands : c.type \in {"CreateRestaurant", "PlaceOrder", "MarkAsPrepared"}}

\* The saga's appends always find room (one derived command per event).
MaxSagaLoop == 2 * MaxEventsLoop

\* The HTTP server serves calls until it has ended: main raises the signal
\* after `.run().await?` returned, so no call takes a step once it is raised
\* (a call the graceful drain gave up on stays where it was).
ServeFetch(h, command) == ~cancelled /\ HandleFetch(h, command, MaxEventsLoop)
ServeSave(h) == ~cancelled /\ HandleSave(h)

\* One program instance: web calls feed the log, another writer may add a
\* row, the background task runs its loop until it ends, main may cancel.
NextLoop ==
    \/ \E c \in LoopCommands : ServeFetch("h1", c)
    \/ ServeSave("h1")
    \/ \E d \in RestaurantIds : AppendForeign("Restaurant", d, MaxEventsLoop)
    \/ \E v \in Views, store_ok \in BOOLEAN : PassBegin(v, "wA", store_ok)
    \/ \E store_ok \in BOOLEAN : ViewHandle("wA", store_ok)
    \/ SagaReact("wA", MaxSagaLoop)
    \/ SagaProbe("wA")
    \/ SagaAppend("wA")
    \/ \E v \in Views : Finish(v, "wA")
    \/ \E v \in Views : FinishFails(v, "wA")
    \/ \E v \in Views : PassEnd(v, "wA")
    \/ TimerFires("wA")
    \/ SelectContinue("wA")
    \/ SelectBreak("wA")
    \/ Cancel

\* A step of the background task: the task is one sequential future, so its
\* place in the loop enables one kind of step at a time.
TaskStep(w) ==
    \/ \E v \in Views, store_ok \in BOOLEAN : PassBegin(v, w, store_ok)
    \/ \E store_ok \in BOOLEAN : ViewHandle(w, store_ok)
    \/ SagaReact(w, MaxSagaLoop)
    \/ SagaProbe(w)
    \/ SagaAppend(w)
    \/ \E v \in Views : Finish(v, w) \/ FinishFails(v, w) \/ PassEnd(v, w)
    \/ TimerFires(w) \/ SelectContinue(w) \/ SelectBreak(w)

\* The runtime polls the task whenever it can go on, every await of a pass
\* returns (with a value or an error), and the sleep runs out.
FairLoop == WF_vars(TaskStep("wA"))

SpecLoop == Init /\ [][NextLoop]_vars /\ FairLoop

\* ------------------------------------------------- the lock table alone

\* The last call of a pass with either outcome: ack_event or nack_event
\* returns the updated lock row, or the error of a statement that found no
\* row (fetch_one); the error leaves the pass. The worker keeps the outcome.
FinishPass(view, w) ==
    /\ workers[view][w].pc = "handled"
    /\ locks' = IF finish(view, w).ok THEN finish(view, w).value ELSE locks
    /\ workers' = [workers EXCEPT ![view][w] =
           [pc |-> "idle", offset |-> workers[view][w].offset,
            ok |-> workers[view][w].ok, result |-> outcome(finish(view, w))]]
    /\ UNCHANGED <<events, restaurants, orders, handlers, task, cancelled>>

\* The lock row of a pair disappears from the store under the program (the
\* store corruption an ack or nack without a lock row points to).
LockRowLost(view, decider_id) ==
    /\ is_some(locks[view][decider_id])
    /\ locks' = [locks EXCEPT ![view][decider_id] = None]
    /\ UNCHANGED <<events, restaurants, orders, handlers, workers, task, cancelled>>

\* One web call feeding the log, one worker per subscriber, and lock rows
\* that may be lost between the serve and the ack or nack.
NextLocks ==
    \/ \E c \in DispatchCommands : HandleFetch("h1", c, MaxEventsLocks)
    \/ HandleSave("h1")
    \/ \E v \in Views, d \in StreamIds : Poll(v, "wA", d)
    \/ \E store_ok \in BOOLEAN : ViewHandle("wA", store_ok)
    \/ SagaReact("wA", MaxEventsLocks)
    \/ \E v \in Views : FinishPass(v, "wA")
    \/ \E v \in Views, d \in StreamIds : LockRowLost(v, d)

SpecLocks == Init /\ [][NextLocks]_vars

\* ------------------------------------------- projections under dispatch

\* The commands of an order that is created and then prepared.
ProjectCommands ==
    {c \in Commands : c.type \in {"Create", "MarkAsPrepared"}}

\* One web call feeding an order's stream and two workers of the view
\* subscriber whose handlers may outlast their lease.
NextProject ==
    \/ \E c \in ProjectCommands : HandleFetch("h1", c, MaxEventsProject)
    \/ HandleSave("h1")
    \/ \E w \in Workers, d \in StreamIds : Poll("view", w, d)
    \/ \E w \in Workers, store_ok \in BOOLEAN : ViewHandle(w, store_ok)
    \/ \E w \in Workers : Finish("view", w)
    \/ \E d \in StreamIds : LeaseExpire("view", d)

SpecProject == Init /\ [][NextProject]_vars

\* ------------------------------------------------------ batches of events

\* The batches save(events, latest_version) is called with: any slice of
\* events of one stream. (The deciders of this repository return one event
\* per command; save itself takes a batch of any length.)
BatchEvents ==
    {[decider |-> "Restaurant", type |-> "Created", identifier |-> r, name |-> TheName,
      menu |-> TheMenu] : r \in RestaurantIds}
    \cup {[decider |-> "Restaurant", type |-> "MenuChanged", identifier |-> r,
           menu |-> TheMenu] : r \in RestaurantIds}
Batches ==
    UNION {[1..n -> BatchEvents] : n \in 1..MaxBatch}

\* The events of the save calls in progress that are not appended yet.
ToAppend ==
    LET left(h) == IF handlers[h].pc = "saving" THEN Len(handlers[h].remaining) ELSE 0
    IN  left("h1") + left("h2")

\* EventSourcedAggregate::handle up to its call of save: the stream is
\* loaded (fetch_events), the decider returned new_events, and save starts
\* with the loaded version.
SaveCall(h, new_events) ==
    /\ handlers[h].pc # "saving"
    /\ Len(events) + ToAppend + Len(new_events) <= MaxEventsBatch
    /\ LET rows == list_events(new_events[1].identifier)
       IN  handlers' = [handlers EXCEPT ![h] =
               [pc |-> "saving", new_events |-> new_events, remaining |-> new_events,
                latest_version |-> IF rows = <<>> THEN None
                                   ELSE Some(rows[Len(rows)].event_id),
                saved |-> <<>>]]
    /\ UNCHANGED <<events, locks, restaurants, orders, workers, task, cancelled>>

\* One turn of save's loop: to_new_event_entity(latest_version), append_event
\* (its own INSERT statement; `?` leaves the loop on the first error),
\* latest_version = Some(event_id), result.push. store_ok = FALSE is an INSERT
\* the store fails for another reason than a version conflict.
SaveStep(h, store_ok) ==
    /\ handlers[h].pc = "saving"
    /\ LET me == handlers[h]
           appended == IF store_ok
                       THEN append_event(to_new_event_entity(Head(me.remaining),
                                                             me.latest_version))
                       ELSE Err("store")
       IN  /\ events' = IF appended.ok THEN inserted(appended.value) ELSE events
           /\ handlers' = [handlers EXCEPT ![h] =
                  IF ~appended.ok
                  THEN [pc |-> "done", new_events |-> me.new_events, saved |-> me.saved,
                        result |-> outcome(appended)]
                  ELSE IF Len(me.remaining) = 1
                  THEN [pc |-> "done", new_events |-> me.new_events,
                        saved |-> Append(me.saved, appended.value.event_id),
                        result |-> "Ok"]
                  ELSE [me EXCEPT !.remaining = Tail(me.remaining),
                                  !.latest_version = Some(appended.value.event_id),
                                  !.saved = Append(me.saved, appended.value.event_id)]]
    /\ UNCHANGED <<locks, restaurants, orders, workers, task, cancelled>>

\* Two callers of save on one store.
NextBatch ==
    \/ \E h \in Handlers, new_events \in Batches : SaveCall(h, new_events)
    \/ \E h \in Handlers, store_ok \in BOOLEAN : SaveStep(h, store_ok)

SpecBatch == Init /\ [][NextBatch]_vars

\* Batches whose events belong to several streams: save(&[Event], ..) of
\* AggregateEventRepository takes events of both deciders in one slice.
StreamBatchEvents ==
    BatchEvents
    \cup {[decider |-> "Order", type |-> "Created", identifier |-> o,
            restaurant_identifier |-> r, status |-> "Created", line_items |-> TheItems]
            : o \in OrderIds, r \in RestaurantIds}
StreamBatches ==
    UNION {[1..n -> StreamBatchEvents] : n \in 1..MaxBatch}

\* Two callers of save with batches over several streams.
NextStreams ==
    \/ \E h \in Handlers, new_events \in StreamBatches : SaveCall(h, new_events)
    \/ \E h \in Handlers, store_ok \in BOOLEAN : SaveStep(h, store_ok)

SpecStreams == Init /\ [][NextStreams]_vars

\* ------------------------------------------------------ projections alone

\* Values of the payload value objects, for the events and projection states
\* drawn below.
Names == {TheName, "Luigi"}
Menus == {TheMenu, "N"}
Items == {TheItems, "L2"}
OrderStatuses == {"Created", "Prepared", "Cancelled", "Rejected"}
TheReason == "refused"

\* Every RestaurantEvent over these values.
RestaurantEvents ==
    {[decider |-> "Restaurant", type |-> "Created", identifier |-> r, name |-> n, menu |-> m]
        : r \in RestaurantIds, n \in Names, m \in Menus}
    \cup {[decider |-> "Restaurant", type |-> "NotCreated", identifier |-> r, name |-> n,
           menu |-> m, reason |-> TheReason] : r \in RestaurantIds, n \in Names, m \in Menus}
    \cup {[decider |-> "Restaurant", type |-> "MenuChanged", identifier |-> r, menu |-> m]
            : r \in RestaurantIds, m \in Menus}
    \cup {[decider |-> "Restaurant", type |-> "MenuNotChanged", identifier |-> r, menu |-> m,
           reason |-> TheReason] : r \in RestaurantIds, m \in Menus}
    \cup {[decider |-> "Restaurant", type |-> "OrderPlaced", identifier |-> r,
           order_identifier |-> o, line_items |-> l]
            : r \in RestaurantIds, o \in OrderIds, l \in Items}
    \cup {[decider |-> "Restaurant", type |-> "OrderNotPlaced", identifier |-> r,
           order_identifier |-> o, line_items |-> l, reason |-> TheReason]
            : r \in RestaurantIds, o \in OrderIds, l \in Items}

\* Every OrderEvent over these values.
OrderEvents ==
    {[decider |-> "Order", type |-> "Created", identifier |-> o, restaurant_identifier |-> r,
      status |-> st, line_items |-> l]
        : o \in OrderIds, r \in RestaurantIds, st \in OrderStatuses, l \in Items}
    \cup {[decider |-> "Order", type |-> "NotCreated", identifier |-> o,
           restaurant_identifier |-> r, line_items |-> l, reason |-> TheReason]
            : o \in OrderIds, r \in RestaurantIds, l \in Items}
    \cup {[decider |-> "Order", type |-> "Prepared", identifier |-> o, status |-> st]
            : o \in OrderIds, st \in OrderStatuses}
    \cup {[decider |-> "Order", type |-> "NotPrepared", identifier |-> o, reason |-> TheReason]
            : o \in OrderIds}

\* Option<RestaurantViewState> / Option<OrderViewState> of the row with key id.
RestaurantViewStates(id) ==
    {None} \cup {Some([identifier |-> id, name |-> n, menu |-> m]) : n \in Names, m \in Menus}
OrderViewStates(id) ==
    {None} \cup {Some([identifier |-> id, restaurant_identifier |-> r, status |-> st,
                       line_items |-> l])
                    : r \in RestaurantIds, st \in OrderStatuses, l \in Items}

\* Any content of the projection tables, an empty log and no dispatcher.
InitView ==
    /\ events = <<>>
    /\ locks = [v \in Views |-> [d \in StreamIds |-> None]]
    /\ restaurants \in {t \in [RestaurantIds -> UNION {RestaurantViewStates(r) : r \in RestaurantIds}] :
                            \A r \in RestaurantIds : t[r] \in RestaurantViewStates(r)}
    /\ orders \in {t \in [OrderIds -> UNION {OrderViewStates(o) : o \in OrderIds}] :
                       \A o \in OrderIds : t[o] \in OrderViewStates(o)}
    /\ handlers = [h \in Handlers |-> IdleHandler]
    /\ workers = [v \in Views |-> [w \in Workers |-> IdleWorker]]
    /\ task = [w \in Workers |-> StartedTask]
    /\ cancelled = FALSE

\* MaterializedView::handle(event) of the restaurant view or the order view,
\* whatever delivered the event: fetch_state, evolve, save. The worker keeps
\* the event and the state it fetched.
Project(w, event) ==
    /\ LET table == IF event.decider = "Restaurant" THEN restaurants ELSE orders
           handled == materialized_view_handle(table, event, TRUE)
       IN  /\ restaurants' = IF event.decider = "Restaurant" THEN handled.value ELSE restaurants
           /\ orders' = IF event.decider = "Order" THEN handled.value ELSE orders
           /\ workers' = [workers EXCEPT !["view"][w] =
                  [pc |-> "idle", event |-> event, before |-> table[event.identifier]]]
    /\ UNCHANGED <<events, locks, handlers, task, cancelled>>

NextView ==
    \E event \in RestaurantEvents \cup OrderEvents : Project("wA", event)

SpecView == InitView /\ [][NextView]_vars

\* ------------------------------------------------------ the events' codec

\* save(&[event], latest_version) of a repository, called with the latest
\* version of the event's stream: to_new_event_entity encodes the event into
\* the row's data, append_event inserts the row. The caller keeps the event
\* it saved and the offset of its row.
SaveEvent(h, event, cap) ==
    /\ Room(cap)
    /\ LET rows == list_events(event.identifier)
           version == IF rows = <<>> THEN None ELSE Some(rows[Len(rows)].event_id)
           saved == save(<<event>>, version)
       IN  /\ saved.ok
           /\ events' = inserted(saved.value)
           /\ handlers' = [handlers EXCEPT ![h] =
                  [pc |-> "saved", event |-> event, offset |-> saved.value.offset]]
    /\ UNCHANGED <<locks, restaurants, orders, workers, task, cancelled>>

\* The repository of the event's decider reads the row back: fetch_events
\* maps it with to_restaurant_event / to_order_event.
LoadEvent(h) ==
    /\ handlers[h].pc = "saved"
    /\ handlers' = [handlers EXCEPT ![h] =
           [pc |-> "loaded", event |-> handlers[h].event, offset |-> handlers[h].offset,
            decoded |-> decode(events[handlers[h].offset], handlers[h].event.decider)]]
    /\ UNCHANGED <<events, locks, restaurants, orders, workers, task, cancelled>>

NextCodec ==
    \/ \E event \in RestaurantEvents \cup OrderEvents : SaveEvent("h1", event, MaxEventsCodec)
    \/ LoadEvent("h1")

SpecCodec == Init /\ [][NextCodec]_vars

\* ------------------------------------------------------ the domain alone

\* Every RestaurantCommand and OrderCommand over the payload values.
AllRestaurantCommands ==
    {[type |-> "CreateRestaurant", identifier |-> r, name |-> n, menu |-> m]
        : r \in RestaurantIds, n \in Names, m \in Menus}
    \cup {[type |-> "ChangeMenu", identifier |-> r, menu |-> m]
            : r \in RestaurantIds, m \in Menus}
    \cup {[type |-> "PlaceOrder", identifier |-> r, order_identifier |-> o, line_items |-> l]
            : r \in RestaurantIds, o \in OrderIds, l \in Items}
AllOrderCommands ==
    {[type |-> "Create", identifier |-> o, restaurant_identifier |-> r, line_items |-> l]
        : o \in OrderIds, r \in RestaurantIds, l \in Items}
    \cup {[type |-> "MarkAsPrepared", identifier |-> o] : o \in OrderIds}

\* Option<Restaurant> / Option<Order> of the stream a command or an event
\* with this identifier belongs to (the structs have the fields of the view
\* states).
StatesOf(decider, id) ==
    IF decider = "Restaurant" THEN RestaurantViewStates(id) ELSE OrderViewStates(id)

\* EventSourcedAggregate::handle between fetch_events and save: the decider
\* decides on the state folded from the stream, and the new events evolve
\* that state. The caller keeps the command, the state and both results.
DecideOn(h, command, state) ==
    /\ handlers' = [handlers EXCEPT ![h] =
           [pc |-> "decided", command |-> command, state |-> state,
            new_events |-> decide(command, state),
            new_state |-> fold(state, decide(command, state))]]
    /\ UNCHANGED <<events, locks, restaurants, orders, workers, task, cancelled>>

\* One application of a decider's evolve to a state and an event of its stream.
EvolveWith(h, state, event) ==
    /\ handlers' = [handlers EXCEPT ![h] =
           [pc |-> "evolved", state |-> state, event |-> event,
            new_state |-> evolve(state, event)]]
    /\ UNCHANGED <<events, locks, restaurants, orders, workers, task, cancelled>>

\* SagaManager::handle: the saga reacts to a Restaurant event.
ReactTo(h, event) ==
    /\ handlers' = [handlers EXCEPT ![h] =
           [pc |-> "reacted", event |-> event, commands |-> order_saga_react(event)]]
    /\ UNCHANGED <<events, locks, restaurants, orders, workers, task, cancelled>>

NextDomain ==
    \/ \E command \in AllRestaurantCommands \cup AllOrderCommands :
          \E state \in StatesOf(command_decider(command), command.identifier) :
              DecideOn("h1", command, state)
    \/ \E event \in RestaurantEvents \cup OrderEvents :
          \E state \in StatesOf(event.decider, event.identifier) :
              EvolveWith("h1", state, event)
    \/ \E event \in RestaurantEvents : ReactTo("h1", event)

SpecDomain == Init /\ [][NextDomain]_vars

\* ================================================================ claims

\* The stream (decider, decider_id) a command addresses.
command_stream(command) == <<command_decider(command), command.identifier>>

\* The rows of a stream, in offset order.
stream_rows(decider, decider_id) ==
    SelectSeq(events, LAMBDA row : row.decider = decider /\ row.decider_id = decider_id)

\* The completed handle(command) calls: of the web layer, and of the saga's
\* order aggregate. Each with the stream, the version it loaded and its outcome.
Callers == Handlers \cup Workers
completed(k) ==
    IF k \in Handlers
    THEN handlers[k].pc = "done"
    ELSE workers["saga"][k].pc = "handled" /\ "command" \in DOMAIN workers["saga"][k]
call(k) ==
    IF k \in Handlers
    THEN [stream |-> command_stream(handlers[k].command),
          version |-> handlers[k].version, result |-> handlers[k].result]
    ELSE [stream |-> command_stream(workers["saga"][k].command),
          version |-> workers["saga"][k].loaded, result |-> workers["saga"][k].result]

\* C1: of two handle(command) calls on the same stream that loaded the same
\* version, exactly one appends and succeeds and the other appends nothing and
\* fails; both never append, and both lose only to a third call that won.
C1_OccExclusive ==
    \A a, b \in Callers :
        (a # b /\ completed(a) /\ completed(b)
         /\ call(a).stream = call(b).stream /\ call(a).version = call(b).version)
        => /\ ~(call(a).result = "Ok" /\ call(b).result = "Ok")
           /\ (call(a).result # "Ok" /\ call(b).result # "Ok")
              => \E i \in 1..Len(events) :
                    /\ <<events[i].decider, events[i].decider_id>> = call(a).stream
                    /\ events[i].previous_id = call(a).version

stream_of(offset) == events[offset].decider_id

\* A live worker that holds an event between stream_events and ack / nack.
holding(view, w) == workers[view][w].pc \notin {"idle", "crashed", "failed", "panicked"}

\* The step in which stream_events hands worker w an event.
served_step(view, w) ==
    workers[view][w].pc = "idle" /\ workers'[view][w].pc = "served"

\* The steps in which worker w's ack_event / nack_event takes effect.
acked_step(view, w) ==
    /\ workers[view][w].pc = "handled" /\ workers[view][w].ok
    /\ workers'[view][w].pc = "idle"
nacked_step(view, w) ==
    /\ workers[view][w].pc = "handled" /\ ~workers[view][w].ok
    /\ workers'[view][w].pc = "idle"

\* C4: the last_offset of every (subscriber, stream) lock never decreases,
\* whatever the workers polling the subscriber do.
C4_LastOffsetMonotone ==
    [][\A v \in Views, d \in StreamIds :
            last_offset_of(v, d)' >= last_offset_of(v, d)]_vars

\* The log's offsets.
Offsets == 1..Len(events)

\* C5: an event of a stream is served only while no lease on the (subscriber,
\* stream) pair is active, and never while another worker of the subscriber
\* is processing an event of that stream.
C5_LeaseExclusive ==
    [][\A v \in Views, w \in Workers, d \in StreamIds :
            (served_step(v, w) /\ stream_of(workers'[v][w].offset) = d)
            => /\ ~lease_active(v, d)
               /\ \A o \in Workers \ {w} :
                     ~(holding(v, o) /\ stream_of(workers[v][o].offset) = d)]_vars

\* C6: per subscriber and stream, events are served in increasing offset
\* order, no event is served while an earlier event of its stream is
\* unacknowledged, and every successful ack strictly increases last_offset.
C6_OrderedAcks ==
    [][\A v \in Views, w \in Workers, d \in StreamIds, o \in Offsets :
            /\ (served_step(v, w) /\ workers'[v][w].offset = o /\ stream_of(o) = d)
               => /\ \A j \in 1..(o - 1) :
                         stream_of(j) = d => j <= last_offset_of(v, d)
                  /\ is_some(locks[v][d]) => o >= unwrap(locks[v][d]).offset
            /\ (acked_step(v, w) /\ workers[v][w].offset = o /\ stream_of(o) = d)
               => last_offset_of(v, d)' > last_offset_of(v, d)]_vars

\* C7: stream_events never hands a subscriber an event whose offset is at or
\* below the last_offset recorded in the subscriber's lock of that stream.
C7_BeyondLastOffset ==
    [][\A v \in Views, w \in Workers, d \in StreamIds, o \in Offsets :
            (served_step(v, w) /\ workers'[v][w].offset = o /\ stream_of(o) = d)
            => /\ o > last_offset_of(v, d)
               /\ o > last_offset_of(v, d)']_vars

\* C7 witness: a worker has just been served the event that follows an
\* acknowledged one in its stream.
C7_Witness ==
    \E w \in Workers :
        /\ workers["view"][w].pc = "served"
        /\ last_offset_of("view", stream_of(workers["view"][w].offset)) >= 1
        /\ workers["view"][w].offset
              > last_offset_of("view", stream_of(workers["view"][w].offset))

\* C8: when a worker crashed holding an event that nobody has acknowledged
\* since, the next event of that stream served to another worker is that same
\* event, and the ack of the worker that handled it sets last_offset to the
\* event's offset.
C8_LeaseRecovery ==
    [][\A v \in Views, a \in Workers, b \in Workers, d \in StreamIds, o \in Offsets :
            /\ ( /\ a # b
                 /\ workers[v][a].pc = "crashed"
                 /\ workers[v][a].offset = o /\ stream_of(o) = d
                 /\ last_offset_of(v, d) < o
                 /\ served_step(v, b)
                 /\ stream_of(workers'[v][b].offset) = d )
               => workers'[v][b].offset = o
            /\ (acked_step(v, b) /\ workers[v][b].offset = o /\ stream_of(o) = d)
               => last_offset_of(v, d)' = o]_vars

\* C9: a nack releases the lease of its (subscriber, stream) pair and leaves
\* last_offset unchanged, and the next event of the stream that stream_events
\* serves to the subscriber is the nacked event.
C9_NackReserves ==
    [][\A v \in Views, w \in Workers, d \in StreamIds, o \in Offsets :
            (nacked_step(v, w) /\ workers[v][w].offset = o /\ stream_of(o) = d)
            => /\ ~lease_active(v, d)'
               /\ last_offset_of(v, d)' = last_offset_of(v, d)
               /\ pending(v, d)' # {}
               /\ first_pending(v, d)' = o]_vars

\* The command the saga derived from event o was handled successfully by the
\* order aggregate: the event worker w's call appended is in the order's stream.
derived_handled(w, o) ==
    /\ is_some(workers["saga"][w].appended)
    /\ \E j \in Offsets :
          /\ events[j].event_id = unwrap(workers["saga"][w].appended)
          /\ events[j].decider = "Order"
          /\ events[j].decider_id = order_saga_react(to_restaurant_event(events[o]).value)[1].identifier

\* C10: the saga dispatcher ends its pass on a Restaurant event the saga
\* reacts to with an ack (last_offset set to the event's offset) only when the
\* derived command was handled successfully; otherwise it nacks: last_offset
\* stays, the lease is released and the event is the next one served.
C10_SagaAckOnSuccess ==
    [][\A w \in Workers, d \in StreamIds, o \in Offsets :
            ( /\ workers["saga"][w].pc = "handled" /\ workers'["saga"][w].pc = "idle"
              /\ workers["saga"][w].offset = o /\ stream_of(o) = d
              /\ events[o].decider = "Restaurant"
              /\ order_saga_react(to_restaurant_event(events[o]).value) # <<>> )
            => IF derived_handled(w, o)
               THEN /\ last_offset_of("saga", d)' = o
                    /\ ~lease_active("saga", d)'
               ELSE /\ last_offset_of("saga", d)' = last_offset_of("saga", d)
                    /\ ~lease_active("saga", d)'
                    /\ first_pending("saga", d)' = o]_vars

\* C10 witness: the saga acknowledged a RestaurantOrderPlaced event and the
\* order it names has the event the derived CreateOrder appended.
C10_Witness ==
    \E o \in Offsets :
        /\ events[o].event = "RestaurantOrderPlaced"
        /\ last_offset_of("saga", stream_of(o)) = o
        /\ workers["saga"]["wA"].pc = "idle"
        /\ \E j \in Offsets :
              /\ events[j].event \in {"OrderCreated", "OrderNotCreated"}
              /\ events[j].decider_id = events[o].data.order_identifier

\* An event is in the hands of a worker of the subscriber.
held(view, offset) ==
    \E w \in Workers : holding(view, w) /\ workers[view][w].offset = offset

\* C3: every event appended to the log is at some time served to the view
\* subscriber and to the saga subscriber.
C3_EveryEventServed ==
    \A v \in Views, i \in 1..MaxSagaLive :
        (<>(Len(events) >= i)) => <>held(v, i)

\* The OrderCreated events of an order's stream.
order_created_rows(decider_id) ==
    SelectSeq(events, LAMBDA row : row.decider_id = decider_id /\ row.event = "OrderCreated")

\* C11: every delivery of an OrderPlaced event to the saga has its CreateOrder
\* command handled without a handler error, and deliveries after a successful
\* one append OrderNotCreated: the order never gets a second OrderCreated.
C11_SagaRedelivery ==
    \A w \in Workers :
        (workers["saga"][w].pc = "handled" /\ "command" \in DOMAIN workers["saga"][w])
        => /\ workers["saga"][w].result = "Ok"
           /\ Len(order_created_rows(workers["saga"][w].command.identifier)) <= 1

\* A RestaurantOrderPlaced event for order o of restaurant r is in the log.
order_placed(r, o) ==
    \E i \in Offsets :
        /\ events[i].event = "RestaurantOrderPlaced"
        /\ events[i].decider_id = r
        /\ events[i].data.order_identifier = o

\* The OrderCreated event the saga's CreateOrder{o, r, items} produces is in
\* the stream of order o.
order_created(r, o) ==
    \E i \in Offsets :
        /\ events[i].decider = "Order" /\ events[i].decider_id = o
        /\ to_order_event(events[i]) =
              Ok([decider |-> "Order", type |-> "Created", identifier |-> o,
                  restaurant_identifier |-> r, status |-> "Created",
                  line_items |-> TheItems])

\* C12: once OrderPlaced{r, o} is in the log while order o does not exist, an
\* OrderCreated{o, r, Created, items} is eventually appended to the stream of
\* order o (the loop keeps running, the store answers).
C12_OrderPlacedLeadsToOrderCreated ==
    \A r \in RestaurantIds, o \in OrderIds :
        (order_placed(r, o) /\ order_created_rows(o) = <<>>) ~> order_created(r, o)

\* C13: for both views, evolve(evolve(s, e), e) = evolve(s, e) for every
\* projection state s and every event e of the view's family, and handling
\* again the event a view has just handled leaves the projection as it is.
C13_ViewIdempotent ==
    /\ \A e \in RestaurantEvents :
          restaurant_evolve(restaurant_evolve(restaurants[e.identifier], e), e)
              = restaurant_evolve(restaurants[e.identifier], e)
    /\ \A e \in OrderEvents :
          order_evolve(order_evolve(orders[e.identifier], e), e)
              = order_evolve(orders[e.identifier], e)
    /\ \A w \in Workers :
          "event" \in DOMAIN workers["view"][w]
          => LET e == workers["view"][w].event
             IN  IF e.decider = "Restaurant"
                 THEN materialized_view_handle(restaurants, e, TRUE) = Ok(restaurants)
                 ELSE materialized_view_handle(orders, e, TRUE) = Ok(orders)

\* C13 witness: a view has handled an event that changed the projection row
\* (a menu change, an order prepared) and the event may be delivered again.
C13_Witness ==
    /\ \E w \in Workers :
          /\ "event" \in DOMAIN workers["view"][w]
          /\ workers["view"][w].event.type \in {"MenuChanged", "Prepared"}
          /\ is_some(workers["view"][w].before)
          /\ IF workers["view"][w].event.decider = "Restaurant"
             THEN restaurants[workers["view"][w].event.identifier] # workers["view"][w].before
             ELSE orders[workers["view"][w].event.identifier] # workers["view"][w].before

\* The state of a stream: the fold of evolve from initial_state over the
\* events list_events returns for it, in offset order.
stream_state(decider_id) ==
    LET rows == list_events(decider_id)
    IN  fold(None, [i \in 1..Len(rows) |-> to_event(rows[i]).value])

\* C14: the state handle passes to decide is the fold of the stream's events
\* at the time of the load; and when the call is accepted, the fold of the
\* stream's events afterwards is that state evolved with the events decide
\* produced. For the web calls and for the saga's order aggregate.
C14_StateIsFold ==
    [][\A d \in StreamIds :
          /\ \A h \in Handlers :
                /\ (handlers[h].pc # "fetched" /\ handlers'[h].pc = "fetched"
                    /\ handlers'[h].command.identifier = d)
                   => handlers'[h].state = stream_state(d)
                /\ (handlers[h].pc = "fetched" /\ handlers'[h].pc = "done"
                    /\ handlers'[h].result = "Ok" /\ handlers[h].command.identifier = d)
                   => stream_state(d)'
                        = fold(handlers[h].state,
                               decide(handlers[h].command, handlers[h].state))
          /\ \A w \in Workers :
                /\ (workers["saga"][w].pc = "served" /\ workers'["saga"][w].pc = "fetched"
                    /\ workers'["saga"][w].command.identifier = d)
                   => workers'["saga"][w].state = stream_state(d)
                /\ (workers["saga"][w].pc = "probed" /\ workers'["saga"][w].pc = "handled"
                    /\ workers'["saga"][w].result = "Ok"
                    /\ workers["saga"][w].command.identifier = d)
                   => stream_state(d)'
                        = fold(workers["saga"][w].state, workers["saga"][w].new_events)]_vars

occ_rejects(h) ==
    /\ handlers[h].pc = "fetched"
    /\ insert_refused(to_new_event_entity(
            decide(handlers[h].command, handlers[h].state)[1], handlers[h].version))

\* C16: when the append of a handle(command) call is rejected by the
\* optimistic concurrency check, the call ends with an error for its caller,
\* the log is left as it was, and the ended call appends nothing later: it
\* stays ended until the client sends a command again.
C16_ConflictSurfaces ==
    [][\A h \in Handlers :
          /\ (occ_rejects(h) /\ handlers'[h] # handlers[h])
             => /\ handlers'[h].pc = "done"
                /\ handlers'[h].result = "VersionConflict"
                /\ events' = events
          /\ (handlers[h].pc = "done" /\ handlers[h].result = "VersionConflict"
              /\ handlers'[h] # handlers[h])
             => /\ events' = events
                /\ handlers'[h].pc = "fetched" \/ handlers'[h].result # "Ok"]_vars

\* C16 witness: a web call has ended with the version conflict while the log
\* holds the event of the call that won.
C16_Witness ==
    \E h \in Handlers :
        /\ handlers[h].pc = "done" /\ handlers[h].result = "VersionConflict"
        /\ \E i \in Offsets :
              /\ events[i].decider_id = handlers[h].command.identifier
              /\ events[i].previous_id = handlers[h].version

\* C17: when the data of an event served to a dispatcher does not decode, the
\* dispatcher nacks the event in the same pass: once the pass is over the
\* lease of the (subscriber, stream) pair is released.
C17_DecodeFailureNacks ==
    \A v \in Views, w \in Workers :
        (workers[v][w].pc \in {"failed", "panicked"} /\ workers[v][w].error = "decode")
        => ~lease_active(v, stream_of(workers[v][w].offset))

\* C18: the dispatcher loop stops only on the cancellation signal: a pass
\* that fails (store error, decode failure, failed ack or nack) is logged and
\* followed by another pass, for the view and for the saga subscriber.
C18_StopsOnlyOnCancellation ==
    \A w \in Workers :
        ended(w) => (task[w].pc = "stopped" /\ task[w].by = "cancellation")

\* C19: once the cancellation signal is raised the loop completes at most the
\* iteration in progress and then exits: it never leaves the wait of its
\* select! for a further iteration.
C19_NoFurtherPass ==
    [][\A w \in Workers :
          cancelled => ~(task[w].pc \in {"select", "timer_ready"} /\ task'[w].pc = "view")]_vars

decided(h, type) == handlers[h].pc = "decided" /\ handlers[h].command.type = type
evolved(h, decider, type) ==
    /\ handlers[h].pc = "evolved"
    /\ handlers[h].event.decider = decider /\ handlers[h].event.type = type
reacted(h) == handlers[h].pc = "reacted"

\* C21: the saga's react returns exactly one command for an OrderPlaced
\* event, CreateOrder with the event's order_identifier as identifier, the
\* event's identifier as restaurant_identifier and the event's line items,
\* and the empty sequence for every other Restaurant event.
C21_SagaReact ==
    \A h \in Handlers :
        reacted(h) =>
            LET event == handlers[h].event
                commands == handlers[h].commands
            IN  IF event.type = "OrderPlaced"
                THEN /\ Len(commands) = 1
                     /\ commands[1].type = "Create"
                     /\ commands[1].identifier = event.order_identifier
                     /\ commands[1].restaurant_identifier = event.identifier
                     /\ commands[1].line_items = event.line_items
                ELSE commands = <<>>

\* C21 witness: the saga has reacted to an OrderPlaced event with a command.
C21_Witness ==
    /\ reacted("h1")
    /\ handlers["h1"].event.type = "OrderPlaced"
    /\ Len(handlers["h1"].commands) = 1

\* C22: decide(CreateRestaurant, state) yields exactly one event:
\* RestaurantCreated with the command's id, name and menu when the state is
\* absent, RestaurantNotCreated with reason "Restaurant already exists" when
\* a restaurant exists. Evolving the absent state with RestaurantCreated
\* gives a restaurant with that id, name and menu; evolving with
\* RestaurantNotCreated leaves the state unchanged.
C22_CreateRestaurant ==
    \A h \in Handlers :
        /\ decided(h, "CreateRestaurant") =>
              LET command == handlers[h].command
                  new_events == handlers[h].new_events
              IN  /\ Len(new_events) = 1
                  /\ new_events[1].decider = "Restaurant"
                  /\ new_events[1].identifier = command.identifier
                  /\ new_events[1].name = command.name
                  /\ new_events[1].menu = command.menu
                  /\ IF handlers[h].state = None
                     THEN /\ new_events[1].type = "Created"
                          /\ handlers[h].new_state =
                                Some([identifier |-> command.identifier,
                                      name |-> command.name, menu |-> command.menu])
                     ELSE /\ new_events[1].type = "NotCreated"
                          /\ new_events[1].reason = "Restaurant already exists"
                          /\ handlers[h].new_state = handlers[h].state
        /\ (evolved(h, "Restaurant", "Created") /\ handlers[h].state = None) =>
              handlers[h].new_state =
                  Some([identifier |-> handlers[h].event.identifier,
                        name |-> handlers[h].event.name, menu |-> handlers[h].event.menu])
        /\ evolved(h, "Restaurant", "NotCreated") =>
              handlers[h].new_state = handlers[h].state

\* C22 witness: CreateRestaurant was decided on an existing restaurant whose
\* name and menu differ from the command's, and was refused.
C22_Witness ==
    /\ decided("h1", "CreateRestaurant")
    /\ is_some(handlers["h1"].state)
    /\ unwrap(handlers["h1"].state).name # handlers["h1"].command.name
    /\ unwrap(handlers["h1"].state).menu # handlers["h1"].command.menu
    /\ handlers["h1"].new_events[1].type = "NotCreated"

\* C23: decide(Create, state) of the Order decider yields exactly one event:
\* OrderCreated with status Created and the command's identifiers and line
\* items when no order exists, OrderNotCreated with reason "Order already
\* exists" when one exists. Evolving the absent state with OrderCreated gives
\* an order with status Created; evolving with OrderNotCreated leaves the
\* state unchanged.
C23_CreateOrder ==
    \A h \in Handlers :
        /\ decided(h, "Create") =>
              LET command == handlers[h].command
                  new_events == handlers[h].new_events
              IN  /\ Len(new_events) = 1
                  /\ new_events[1].decider = "Order"
                  /\ new_events[1].identifier = command.identifier
                  /\ new_events[1].restaurant_identifier = command.restaurant_identifier
                  /\ new_events[1].line_items = command.line_items
                  /\ IF handlers[h].state = None
                     THEN /\ new_events[1].type = "Created"
                          /\ new_events[1].status = "Created"
                          /\ handlers[h].new_state =
                                Some([identifier |-> command.identifier,
                                      restaurant_identifier |-> command.restaurant_identifier,
                                      status |-> "Created",
                                      line_items |-> command.line_items])
                     ELSE /\ new_events[1].type = "NotCreated"
                          /\ new_events[1].reason = "Order already exists"
                          /\ handlers[h].new_state = handlers[h].state
        /\ evolved(h, "Order", "NotCreated") =>
              handlers[h].new_state = handlers[h].state

\* C23 witness: Create was decided on an existing order with other line
\* items and was refused.
C23_Witness ==
    /\ decided("h1", "Create")
    /\ is_some(handlers["h1"].state)
    /\ unwrap(handlers["h1"].state).line_items # handlers["h1"].command.line_items
    /\ handlers["h1"].new_events[1].type = "NotCreated"

\* C24: decide(MarkAsPrepared, state) yields OrderPrepared (status Prepared)
\* exactly when an order exists with status Created, and OrderNotPrepared
\* with reason "Order in the wrong status previously" in every other state.
\* Evolving with OrderPrepared changes only the status and keeps the
\* restaurant identifier and the line items; evolving with OrderNotPrepared
\* leaves the state unchanged.
C24_MarkAsPrepared ==
    \A h \in Handlers :
        /\ decided(h, "MarkAsPrepared") =>
              LET command == handlers[h].command
                  state == handlers[h].state
                  new_events == handlers[h].new_events
              IN  /\ Len(new_events) = 1
                  /\ new_events[1].decider = "Order"
                  /\ new_events[1].identifier = command.identifier
                  /\ IF is_some(state) /\ unwrap(state).status = "Created"
                     THEN /\ new_events[1].type = "Prepared"
                          /\ new_events[1].status = "Prepared"
                          /\ handlers[h].new_state =
                                Some([unwrap(state) EXCEPT !.status = "Prepared"])
                     ELSE /\ new_events[1].type = "NotPrepared"
                          /\ new_events[1].reason = "Order in the wrong status previously"
                          /\ handlers[h].new_state = state
        /\ (evolved(h, "Order", "Prepared") /\ is_some(handlers[h].state)) =>
              handlers[h].new_state =
                  Some([unwrap(handlers[h].state) EXCEPT !.status = handlers[h].event.status])
        /\ evolved(h, "Order", "NotPrepared") =>
              handlers[h].new_state = handlers[h].state

\* C24 witness: MarkAsPrepared was decided on a created order whose line
\* items are not the default ones, and the order became Prepared.
C24_Witness ==
    /\ decided("h1", "MarkAsPrepared")
    /\ is_some(handlers["h1"].state)
    /\ unwrap(handlers["h1"].state).line_items # TheItems
    /\ handlers["h1"].new_events[1].type = "Prepared"
    /\ unwrap(handlers["h1"].new_state).status = "Prepared"

\* The error events of both deciders.
negative(event) ==
    event.type \in {"NotCreated", "MenuNotChanged", "OrderNotPlaced", "NotPrepared"}

\* C25: handling a negative event in the materialized view leaves the
\* projection tables unchanged: no row is created where none existed and the
\* data of an existing row is not modified.
C25_NegativeEventsKeepTables ==
    [][\A event \in RestaurantEvents \cup OrderEvents :
          (negative(event) /\ Project("wA", event))
          => (restaurants' = restaurants /\ orders' = orders)]_vars

\* C25 witness: a negative event of an order has been handled while the
\* order's row exists, and another while the restaurant has no row.
C25_Witness ==
    /\ workers["view"]["wA"].pc = "idle"
    /\ "event" \in DOMAIN workers["view"]["wA"]
    /\ negative(workers["view"]["wA"].event)
    /\ workers["view"]["wA"].event.decider = "Order"
    /\ is_some(workers["view"]["wA"].before)
    /\ orders[workers["view"]["wA"].event.identifier] = workers["view"]["wA"].before
    /\ \E r \in RestaurantIds : restaurants[r] = None

\* The version and the state of the stream (decider, decider_id): the
\* event_id of its last event and the fold of its events.
own_version(decider, decider_id) ==
    LET rows == stream_rows(decider, decider_id)
    IN  IF rows = <<>> THEN None ELSE Some(rows[Len(rows)].event_id)
own_state(decider, decider_id) ==
    LET rows == stream_rows(decider, decider_id)
    IN  fold(None, [i \in 1..Len(rows) |-> decode(rows[i], decider).value])

\* C26: a stream is identified by (decider, decider_id): a command of one
\* decider loads, folds and takes its version only from that decider's
\* events, also when the other decider has events under the same decider_id;
\* those events do not make the load fail.
C26_StreamByDeciderAndId ==
    [][/\ \A h \in Handlers, c \in SharedCommands :
            HandleFetch(h, c, MaxEventsShared)
            => /\ handlers'[h].pc = "fetched"
               /\ handlers'[h].version = own_version(command_decider(c), c.identifier)
               /\ handlers'[h].state = own_state(command_decider(c), c.identifier)
       /\ \A w \in Workers, o \in Offsets :
            ( /\ workers["saga"][w].pc = "served" /\ workers["saga"][w].offset = o
              /\ workers'["saga"][w].pc # "served"
              /\ events[o].decider = "Restaurant"
              /\ to_restaurant_event(events[o]).ok
              /\ order_saga_react(to_restaurant_event(events[o]).value) # <<>> )
            => /\ workers'["saga"][w].pc = "fetched"
               /\ workers'["saga"][w].loaded =
                     own_version("Order", events[o].data.order_identifier)
               /\ workers'["saga"][w].state =
                     own_state("Order", events[o].data.order_identifier)]_vars

\* C27: the event log is append-only: an event in the log stays at its
\* offset with every field unchanged in all later states; no step updates or
\* deletes an event.
C27_AppendOnly ==
    [][/\ Len(events') >= Len(events)
       /\ \A i \in 1..Len(events) : events'[i] = events[i]]_vars

\* C27 witness: the log holds events of the web layer and of the saga, and
\* the saga has acknowledged one of them.
C27_Witness ==
    /\ Len(events) >= 3
    /\ \A i \in 1..Len(events) : events[i].offset = i
    /\ workers["saga"]["wA"].pc = "handled"
    /\ is_some(workers["saga"]["wA"].appended)
    /\ \E d \in StreamIds : last_offset_of("saga", d) >= 1

\* C28: handling a command whose stream holds no events succeeds: the
\* version probe yields the absent version, not an error, and the stream's
\* first event is appended with no previous_id (by this call, or by a
\* concurrent one this call then loses to).
C28_EmptyStreamSucceeds ==
    \A k \in Callers :
        (completed(k) /\ call(k).version = None)
        => /\ call(k).result \in {"Ok", "VersionConflict"}
           /\ \E i \in Offsets :
                 /\ <<events[i].decider, events[i].decider_id>> = call(k).stream
                 /\ events[i].previous_id = None

\* C29: for every event variant the decider name, the event name and the
\* decider_id stored with the appended event are decider_name, event_name and
\* identifier of that event.
C29_StoredNamesFromTraits ==
    \A h \in Handlers :
        handlers[h].pc \in {"saved", "loaded"} =>
            LET row == events[handlers[h].offset]
                event == handlers[h].event
            IN  /\ row.decider = decider_name(event)
                /\ row.event = event_name(event)
                /\ row.decider_id = identifier(event)

\* The offsets of the events before offset i that belong to i's stream.
earlier_of_stream(i) ==
    {j \in 1..(i - 1) : /\ events[j].decider = events[i].decider
                        /\ events[j].decider_id = events[i].decider_id}

C31_ChangeMenuPlaceOrder ==
    \A h \in Handlers :
        /\ decided(h, "ChangeMenu") =>
              LET command == handlers[h].command
                  new_events == handlers[h].new_events
              IN  /\ Len(new_events) = 1
                  /\ new_events[1].decider = "Restaurant"
                  /\ new_events[1].identifier = command.identifier
                  /\ new_events[1].menu = command.menu
                  /\ IF is_some(handlers[h].state)
                     THEN /\ new_events[1].type = "MenuChanged"
                          /\ handlers[h].new_state =
                                Some([unwrap(handlers[h].state) EXCEPT !.menu = command.menu])
                     ELSE /\ new_events[1].type = "MenuNotChanged"
                          /\ new_events[1].reason = "Restaurant does not exist"
                          /\ handlers[h].new_state = None
        /\ decided(h, "PlaceOrder") =>
              LET command == handlers[h].command
                  new_events == handlers[h].new_events
              IN  /\ Len(new_events) = 1
                  /\ new_events[1].decider = "Restaurant"
                  /\ new_events[1].identifier = command.identifier
                  /\ new_events[1].order_identifier = command.order_identifier
                  /\ new_events[1].line_items = command.line_items
                  /\ IF is_some(handlers[h].state)
                     THEN new_events[1].type = "OrderPlaced"
                     ELSE /\ new_events[1].type = "OrderNotPlaced"
                          /\ new_events[1].reason = "Restaurant does not exist"
                  /\ handlers[h].new_state = handlers[h].state
        /\ (evolved(h, "Restaurant", "MenuChanged") /\ is_some(handlers[h].state)) =>
              handlers[h].new_state =
                  Some([unwrap(handlers[h].state) EXCEPT !.menu = handlers[h].event.menu])
        /\ evolved(h, "Restaurant", "OrderPlaced") =>
              handlers[h].new_state = handlers[h].state
        /\ (handlers[h].pc = "decided" /\ is_some(handlers[h].state)
               /\ command_decider(handlers[h].command) = "Restaurant") =>
              /\ is_some(handlers[h].new_state)
              /\ unwrap(handlers[h].new_state).name = unwrap(handlers[h].state).name

\* C31 witness: ChangeMenu was decided on an existing restaurant whose menu
\* and name differ from the default ones, and the menu was replaced.
C31_Witness ==
    /\ decided("h1", "ChangeMenu")
    /\ is_some(handlers["h1"].state)
    /\ unwrap(handlers["h1"].state).name # TheName
    /\ unwrap(handlers["h1"].state).menu # handlers["h1"].command.menu
    /\ handlers["h1"].new_events[1].type = "MenuChanged"
    /\ unwrap(handlers["h1"].new_state).menu = handlers["h1"].command.menu

\* C32: the saga dispatcher hands no event of a decider other than Restaurant
\* to the saga manager: the pass that was served such an event causes no
\* command and no append, and its last call acks the event at the event's
\* offset, which releases the lease and moves the pair's last_offset to that
\* offset, so the event is not pending for the saga subscriber any more.
C32_SagaSkipsOtherDeciders ==
    [][\A w \in Workers, o \in Offsets :
          ( /\ workers["saga"][w].pc \in {"served", "handled"}
            /\ workers["saga"][w].offset = o
            /\ events[o].decider # "Restaurant"
            /\ workers'["saga"][w] # workers["saga"][w] )
          => /\ events' = events
             /\ IF workers["saga"][w].pc = "served"
                THEN /\ workers'["saga"][w] =
                            [pc |-> "handled", offset |-> o, ok |-> TRUE, appended |-> None]
                     /\ locks' = locks
                ELSE /\ workers'["saga"][w] = IdleWorker
                     /\ is_some(locks'["saga"][events[o].decider_id])
                     /\ unwrap(locks'["saga"][events[o].decider_id]).last_offset = o
                     /\ ~unwrap(locks'["saga"][events[o].decider_id]).leased
                     /\ o \notin {i \in Offsets :
                                    /\ events[i].decider_id = events[o].decider_id
                                    /\ i > unwrap(locks'["saga"][events[o].decider_id]).last_offset}]_vars

\* C32 witness: the saga subscriber has acked an Order event and holds no
\* lease on the order's stream, while the log holds Restaurant events too.
C32_Witness ==
    /\ \E o \in Offsets :
          /\ events[o].decider = "Order"
          /\ is_some(locks["saga"][events[o].decider_id])
          /\ unwrap(locks["saga"][events[o].decider_id]).last_offset = o
          /\ ~lease_active("saga", events[o].decider_id)
    /\ \E i \in Offsets : events[i].decider = "Restaurant"
    /\ workers["saga"]["wA"].pc = "idle"

\* C33: cancellation does not interrupt a pass: when the loop has left
\* through the cancellation branch, no pass of the task holds a served event
\* that it has neither acked nor nacked, and no lease taken by a pass is
\* still active.
C33_CancellationBetweenPasses ==
    \A w \in Workers :
        (task[w].pc = "stopped" /\ task[w].by = "cancellation")
        => /\ \A v \in Views : workers[v][w].pc = "idle"
           /\ \A v \in Views, d \in StreamIds : ~lease_active(v, d)

\* C33 witness: the loop has left through the cancellation branch after an
\* iteration begun with the signal raised; both subscribers have acked
\* events, and the view subscriber still has events to come.
C33_Witness ==
    /\ task["wA"].pc = "stopped" /\ task["wA"].by = "cancellation"
    /\ task["wA"].late >= 1
    /\ \E d \in StreamIds : last_offset_of("view", d) >= 1
    /\ \E d \in StreamIds : last_offset_of("saga", d) >= 1
    /\ \E d \in StreamIds : pending("view", d) # {}

\* C34: an ack or a nack for a (subscriber, stream) pair that has no lock
\* row returns an error and leaves the lock table unchanged: no lock row is
\* created.
C34_AckWithoutLockRow ==
    [][\A v \in Views, w \in Workers :
          ( /\ workers[v][w].pc = "handled"
            /\ locks[v][events[workers[v][w].offset].decider_id] = None
            /\ workers'[v][w] # workers[v][w] )
          => /\ workers'[v][w].result = "RowNotFound"
             /\ locks' = locks]_vars

\* C34 witness: an ack and a nack have each failed on a pair without lock
\* row, and the pairs still have none.
C34_Witness ==
    /\ workers["saga"]["wA"].pc = "idle" /\ "result" \in DOMAIN workers["saga"]["wA"]
    /\ workers["saga"]["wA"].result = "RowNotFound"
    /\ locks["saga"][events[workers["saga"]["wA"].offset].decider_id] = None
    /\ workers["view"]["wA"].pc = "idle" /\ "result" \in DOMAIN workers["view"]["wA"]
    /\ workers["view"]["wA"].result = "RowNotFound"
    /\ locks["view"][events[workers["view"]["wA"].offset].decider_id] = None
    /\ workers["saga"]["wA"].ok /\ ~workers["view"]["wA"].ok

\* C35: an ack or nack of a worker whose lease on a (subscriber, stream) pair
\* ran out and was granted to another worker does not undo that worker's
\* progress (the pair's last_offset, already at or beyond the late worker's
\* event, stays) and does not release the lease under which the other worker
\* holds a later event of the stream.
C35_LateAckHarmless ==
    [][\A v \in Views, a \in Workers, d \in StreamIds, o \in Offsets :
          ( /\ acked_step(v, a) \/ nacked_step(v, a)
            /\ workers[v][a].offset = o /\ stream_of(o) = d
            /\ last_offset_of(v, d) >= o )
          => /\ last_offset_of(v, d)' = last_offset_of(v, d)
             /\ \A b \in Workers \ {a} :
                   ( /\ holding(v, b) /\ stream_of(workers[v][b].offset) = d
                     /\ workers[v][b].offset > o
                     /\ lease_active(v, d) )
                   => lease_active(v, d)']_vars

\* The order folded from the first n events of an order's stream.
order_after(decider_id, n) ==
    LET rows == stream_rows("Order", decider_id)
    IN  fold(None, [i \in 1..n |-> to_order_event(rows[i]).value])

\* C36: in every order stream OrderCreated occurs at most once, OrderPrepared
\* occurs at most once and only after OrderCreated, and the order's folded
\* status never returns from Prepared to Created.
C36_OrderLifecycle ==
    \A o \in OrderIds :
        LET rows == stream_rows("Order", o)
            at(name) == {i \in 1..Len(rows) : rows[i].event = name}
        IN  /\ Cardinality(at("OrderCreated")) <= 1
            /\ Cardinality(at("OrderPrepared")) <= 1
            /\ \A p \in at("OrderPrepared") : \E c \in at("OrderCreated") : c < p
            /\ \A m \in 1..Len(rows), n \in 1..Len(rows) :
                  ( /\ m < n
                    /\ is_some(order_after(o, m))
                    /\ unwrap(order_after(o, m)).status = "Prepared" )
                  => ~( /\ is_some(order_after(o, n))
                        /\ unwrap(order_after(o, n)).status = "Created" )

\* The step in which the handle(command) call of k returns Ok, and the
\* command and the state the call decided on.
succeeded_step(k) ==
    IF k \in Handlers
    THEN /\ handlers[k].pc = "fetched"
         /\ handlers'[k].pc = "done" /\ handlers'[k].result = "Ok"
    ELSE /\ workers["saga"][k].pc = "probed"
         /\ workers'["saga"][k].pc = "handled" /\ workers'["saga"][k].result = "Ok"
decided_on(k) ==
    IF k \in Handlers
    THEN [command |-> handlers[k].command, state |-> handlers[k].state]
    ELSE [command |-> workers["saga"][k].command, state |-> workers["saga"][k].state]

\* C37: every successfully handled command appends exactly one event, in the
\* command's own stream (decider_id = the command's identifier, decider = the
\* command's family), and the log grows by nothing else: every step that
\* changes the log is such a call's.
C37_OneEventInOwnStream ==
    [][/\ \A k \in Callers :
            succeeded_step(k)
            => /\ Len(decide(decided_on(k).command, decided_on(k).state)) = 1
               /\ Len(events') = Len(events) + 1
               /\ SubSeq(events', 1, Len(events)) = events
               /\ events'[Len(events')].decider_id = decided_on(k).command.identifier
               /\ events'[Len(events')].decider = command_decider(decided_on(k).command)
       /\ events' # events => \E k \in Callers : succeeded_step(k)]_vars

\* C37 witness: a web command and the saga's command have both succeeded,
\* and the log holds events of both families.
C37_Witness ==
    /\ handlers["h1"].pc = "done" /\ handlers["h1"].result = "Ok"
    /\ workers["saga"]["wA"].pc = "handled"
    /\ "result" \in DOMAIN workers["saga"]["wA"]
    /\ workers["saga"]["wA"].result = "Ok"
    /\ \E i \in Offsets, j \in Offsets :
          events[i].decider = "Restaurant" /\ events[j].decider = "Order"

\* The projection row of a stream and the decider the stream belongs to.
projection_row(decider_id) ==
    IF decider_id \in RestaurantIds THEN restaurants[decider_id] ELSE orders[decider_id]
stream_decider(decider_id) ==
    IF decider_id \in RestaurantIds THEN "Restaurant" ELSE "Order"

\* C38: for every stream, once the view subscriber has acked all events of
\* the stream, the projection row equals the decider state folded from the
\* same events: no row exactly when that state is absent, otherwise the same
\* fields.
C38_ProjectionIsFold ==
    \A d \in StreamIds :
        (list_events(d) # <<>> /\ pending("view", d) = {})
        => projection_row(d) = own_state(stream_decider(d), d)

\* C39: the view and the saga subscriber progress independently: a failed
\* pass of one of them (handler failure, decode failure, store error on its
\* stream_events, ack or nack) does not end the serving of the other: the
\* task that runs the passes has not ended on a failure of the view pass
\* while the saga subscriber has events to come, nor on a failure of the
\* saga pass while the view subscriber has events to come.
C39_IndependentSubscribers ==
    \A w \in Workers :
        /\ (task[w].pc = "stopped" /\ task[w].by = "view error")
           => \A d \in StreamIds : pending("saga", d) = {}
        /\ task[w].pc = "panicked"
           => \A d \in StreamIds : pending("view", d) = {}

\* Both subscribers have acknowledged every event of every stream and no
\* lease is outstanding.
quiescent ==
    \A v \in Views, d \in StreamIds : pending(v, d) = {} /\ ~lease_active(v, d)

\* C40: when finitely many external commands are submitted the system
\* quiesces: eventually, and from then on, both subscribers have acknowledged
\* every event of every stream (last_offset is the stream's highest offset)
\* and no lease is outstanding.
C40_Quiesces == <>[]quiescent

====
